---- MODULE Spec2Model ----
(***************************************************************************)
(* A model of @keycloak-lib/next: the OIDC Authorization Code + PKCE flow  *)
(* (login start, callback, logout), the session resolver getSession, the   *)
(* token exchange client and endpoint discovery, over a cookie store with  *)
(* per-key TTL.  Every request handler is a process; its steps are the     *)
(* stretches of code between two awaits that touch shared state (the       *)
(* cookie store, the discovery cache, the network, the clock).             *)
(***************************************************************************)
EXTENDS Integers, Sequences, FiniteSets, TLC

(***************************************************************************)
(* Bounds of the model.                                                    *)
(***************************************************************************)
\* the clock runs over the epoch seconds 1..MaxTime
MaxTime == 3
\* at most MaxRequests requests come in
MaxRequests == 4
\* the provider answers at most MaxRid token requests successfully
MaxRid == 3
\* at most MaxLogin login starts persist a PKCE record
MaxLogin == 2
MaxClock == 302
\* functions applied on their own: the clock reads 0..MaxEpoch, margins 0..MaxMargin
MaxEpoch == 6
MaxMargin == 3
\* the url and realm strings of a discoverEndpoints call applied on its own
\* have 1..MaxStringLen characters
MaxStringLen == 2
\* the value the deployment gives to config.refreshMarginSeconds, when it sets it
ConfigRefreshMargin == 1

\* concurrent requests in flight
Procs == {"r1", "r2"}

(***************************************************************************)
(* JavaScript values.  A string is a tuple <<tag, ...>>, null is the empty *)
(* tuple and '' the tuple <<"">>; a number that may be null is an integer  *)
(* or NoNum.                                                               *)
(***************************************************************************)
NULL == <<>>
EMPTY == <<"">>
NoNum == 0 - 1

\* JavaScript truthiness of a string-or-null and of a number-or-null
Truthy(v) == v # NULL /\ v # EMPTY
TruthyNum(n) == n # NoNum /\ n # 0

\* a ?? b
Coalesce(a, b) == IF a = NULL THEN b ELSE a
CoalesceNum(a, b) == IF a = NoNum THEN b ELSE a

(***************************************************************************)
(* Number <-> string, as Number.prototype.toString and parseInt(s, 10) do  *)
(* it for the non-negative integers the expiry cookies hold.               *)
(***************************************************************************)
RECURSIVE Digits(_)
Digits(n) == IF n < 10 THEN <<n>> ELSE Digits(n \div 10) \o <<n % 10>>

NumToString(n) == <<"num">> \o Digits(n)

RECURSIVE DigitsValue(_)
DigitsValue(ds) ==
    IF ds = <<>> THEN 0
    ELSE 10 * DigitsValue(SubSeq(ds, 1, Len(ds) - 1)) + ds[Len(ds)]

\* parseInt of a string the code wrote with toString; NaN (falsy, every
\* comparison false) is NoNum here, a value TruthyNum rejects as well
ParseInt(s) ==
    IF Len(s) >= 2 /\ s[1] = "num" THEN DigitsValue(Tail(s)) ELSE NoNum

(***************************************************************************)
(* Configuration (types.ts KeycloakConfig).  Optional settings left out by *)
(* the deployment are NULL / NoNum.                                        *)
(***************************************************************************)
DEFAULT_COOKIE_PREFIX == <<"kc">>
DefaultRefreshMargin == 60
CACHE_TTL_MS == 5 * 60 * 1000

ConfigOf(margin) ==
    [ url |-> <<"https://idp.test">>,
      realm |-> <<"demo">>,
      clientId |-> "app",
      clientSecret |-> NULL,
      redirectUri |-> NULL,
      postLogoutRedirectUri |-> NULL,
      authBasePath |-> NULL,
      cookieName |-> NULL,
      refreshMarginSeconds |-> margin ]

\* the origin of every request URL
BaseUrl == <<"https://app.test">>

(***************************************************************************)
(* The cookie store (session/cookies).                                     *)
(***************************************************************************)
getCookieNames(prefix) ==
    [ accessToken |-> prefix \o <<"_at">>,
      refreshToken |-> prefix \o <<"_rt">>,
      idToken |-> prefix \o <<"_id">>,
      expiresAt |-> prefix \o <<"_exp">>,
      refreshExpiresAt |-> prefix \o <<"_rexp">>,
      codeVerifier |-> prefix \o <<"_cv">>,
      state |-> prefix \o <<"_state">>,
      returnTo |-> prefix \o <<"_return">> ]

Names == getCookieNames(DEFAULT_COOKIE_PREFIX)

TokenKeys ==
    { Names.accessToken, Names.refreshToken, Names.idToken,
      Names.expiresAt, Names.refreshExpiresAt }
PKCEKeys == { Names.codeVerifier, Names.state, Names.returnTo }
Keys == TokenKeys \cup PKCEKeys

NoCookie ==
    [ present |-> FALSE, value |-> NULL, httpOnly |-> FALSE, maxAge |-> 0, dies |-> 0 ]

\* cookieStore.set(name, value, {httpOnly, maxAge}) at time t: the key lives
\* for maxAge seconds; a maxAge of 0 or less removes it at once
CookieSet(c, t, name, value, httpOnly, maxAge) ==
    [ c EXCEPT ![name] =
        IF maxAge <= 0 THEN NoCookie
        ELSE [ present |-> TRUE, value |-> value, httpOnly |-> httpOnly,
               maxAge |-> maxAge, dies |-> t + maxAge ] ]

\* cookieStore.delete({name})
CookieDelete(c, name) == [ c EXCEPT ![name] = NoCookie ]

\* cookieStore.get(name)?.value ?? null
CookieGet(c, name) == IF c[name].present THEN c[name].value ELSE NULL

\* the keys whose TTL has run out at time t are gone
ExpireCookies(c, t) ==
    [ k \in DOMAIN c |-> IF c[k].present /\ c[k].dies <= t THEN NoCookie ELSE c[k] ]

(***************************************************************************)
(* State.                                                                  *)
(***************************************************************************)
VARIABLES
    now,        \* the clock, in epoch seconds (Math.floor(Date.now() / 1000))
    config,     \* the KeycloakConfig the handlers were created with
    cookies,    \* the cookie store: key -> cookie
    cache,      \* discovery.ts `cache`, the entry of config's (url, realm)
    procs,      \* the requests in flight: their position and local variables
    wrote,      \* per request: has it changed the cookie store so far
    nextRid,    \* the number of the provider's next token response
    nextLogin,  \* the number of the next login start's verifier and state
    nRequests,  \* the number of requests that have come in
    exchanges,  \* per login start: the code-for-tokens exchanges begun with its verifier
    loginUri,   \* per login start: the redirect_uri of its authorization URL
    cachedAt,   \* the clock when the discovery cache entry was written
    args,       \* the arguments of a function applied on its own
    value,      \* what that function returned
    atClear,    \* per request: where it stood when clearDiscoveryCache last ran
    loggedOut   \* a logout has returned and no callback has stored tokens since

vars ==
    << now, config, cookies, cache, procs, wrote, nextRid, nextLogin, nRequests,
       exchanges, loginUri, cachedAt, args, value, atClear, loggedOut >>

\* no function is applied on its own
NoArgs == << >>
NoValue == << >>

\* Date.now(), observed at whole seconds
DateNowMs == now * 1000

(***************************************************************************)
(* oidc/jwt: tokens, claims, users.                                        *)
(* A token string is <<kind, rid, profile>>: the rid-th token response     *)
(* issued it, and its profile says what its payload decodes to.            *)
(***************************************************************************)
Token(kind, rid, profile) == << kind, rid, profile >>

\* jose's decodeJwt throws on a string that is no JWT
Decodable(token) == Len(token) = 3 /\ token[3] # "bad"

\* The payload of a token.  "std" is Keycloak's default mapping (roles in
\* the access token only), "idroles" puts roles in the id token as well.
PayloadOf(token) ==
    LET sub == << "user", token[2] >> IN
    IF token[1] = "id" THEN
        IF token[3] = "idroles" THEN
            [ sub |-> sub, name |-> <<"Ann">>,
              realm_access |-> [ roles |-> << "user" >> ],
              resource_access |-> [ app |-> [ roles |-> << "edit", "user" >> ] ] ]
        ELSE [ sub |-> sub, name |-> <<"Ann">> ]
    ELSE
        [ sub |-> sub,
          realm_access |-> [ roles |-> << "user", "admin" >> ],
          resource_access |->
              [ app |-> [ roles |-> << "admin", "view" >> ],
                other |-> [ roles |-> << "root" >> ] ] ]

decodeToken(token) == PayloadOf(token)

\* { ...a, ...b }: b's value wins on a key of both
Spread(a, b) ==
    [ k \in DOMAIN a \cup DOMAIN b |-> IF k \in DOMAIN b THEN b[k] ELSE a[k] ]

\* a variant that keeps every occurrence
DedupeKeepAll(list) == list

\* [...new Set(list)]: the first occurrence of each element, in order
RECURSIVE Dedupe(_)
Dedupe(list) ==
    IF list = <<>> THEN <<>>
    ELSE LET init == Dedupe(SubSeq(list, 1, Len(list) - 1))
             last == list[Len(list)]
         IN  IF \E i \in 1..Len(init) : init[i] = last THEN init
             ELSE Append(init, last)

\* claims.key as string | undefined
Field(claims, key) == IF key \in DOMAIN claims THEN claims[key] ELSE NULL

extractUser(claims, clientId) ==
    LET realmRoles ==
            IF "realm_access" \in DOMAIN claims
               /\ "roles" \in DOMAIN claims.realm_access
            THEN claims.realm_access.roles ELSE <<>>
        clientRoles ==
            IF "resource_access" \in DOMAIN claims
               /\ clientId \in DOMAIN claims.resource_access
               /\ "roles" \in DOMAIN claims.resource_access[clientId]
            THEN claims.resource_access[clientId].roles ELSE <<>>
        allRoles == Dedupe(realmRoles \o clientRoles)
    IN  [ sub |-> Field(claims, "sub"),
          name |-> Field(claims, "name"),
          given_name |-> Field(claims, "given_name"),
          family_name |-> Field(claims, "family_name"),
          preferred_username |-> Field(claims, "preferred_username"),
          email |-> Field(claims, "email"),
          email_verified |-> Field(claims, "email_verified"),
          roles |-> allRoles,
          realm_roles |-> realmRoles,
          client_roles |-> clientRoles,
          raw_claims |-> claims ]

\* a variant that is false at the instant expiresAt - marginSeconds itself
isTokenExpiredStrict(expiresAt, marginSeconds) == now > expiresAt - marginSeconds

\* now >= expiresAt - marginSeconds, now read from the clock
isTokenExpired(expiresAt, marginSeconds) == now >= expiresAt - marginSeconds

(***************************************************************************)
(* oidc/token: the normalized token set.                                   *)
(***************************************************************************)
NoTokens ==
    [ access_token |-> NULL, refresh_token |-> NULL, id_token |-> NULL,
      expires_in |-> 0, refresh_expires_in |-> 0,
      access_token_expires_at |-> 0, refresh_token_expires_at |-> 0 ]

\* the provider's rid-th 2xx answer (types.ts TokenResponse)
TokenResponse(rid, profile, expiresIn, refreshExpiresIn) ==
    [ access_token |-> Token("at", rid, profile),
      refresh_token |-> Token("rt", rid, profile),
      id_token |-> Token("id", rid, profile),
      expires_in |-> expiresIn,
      refresh_expires_in |-> refreshExpiresIn ]

\* a variant that takes the lifetime for the instant of expiry
normalizeTokenResponseRelative(response) ==
    [ access_token |-> response.access_token,
      refresh_token |-> response.refresh_token,
      id_token |-> response.id_token,
      expires_in |-> response.expires_in,
      refresh_expires_in |-> response.refresh_expires_in,
      access_token_expires_at |-> response.expires_in,
      refresh_token_expires_at |-> now + response.refresh_expires_in ]

\* a variant that gives the refresh token the access token's lifetime
normalizeTokenResponseOneLifetime(response) ==
    [ access_token |-> response.access_token,
      refresh_token |-> response.refresh_token,
      id_token |-> response.id_token,
      expires_in |-> response.expires_in,
      refresh_expires_in |-> response.refresh_expires_in,
      access_token_expires_at |-> now + response.expires_in,
      refresh_token_expires_at |-> now + response.expires_in ]

normalizeTokenResponse(response) ==
    [ access_token |-> response.access_token,
      refresh_token |-> response.refresh_token,
      id_token |-> response.id_token,
      expires_in |-> response.expires_in,
      refresh_expires_in |-> response.refresh_expires_in,
      access_token_expires_at |-> now + response.expires_in,
      refresh_token_expires_at |-> now + response.refresh_expires_in ]

(***************************************************************************)
(* session/session: buildSession.                                          *)
(***************************************************************************)
NullResult == [ type |-> "null" ]
Thrown == [ type |-> "throw" ]

\* decodeToken throws inside buildSession
buildSessionThrows(accessToken, idToken) ==
    \/ ~Decodable(Coalesce(idToken, accessToken))
    \/ Truthy(idToken) /\ ~Decodable(accessToken)

\* a variant in which the access token's value wins on a key of both
mergedClaimsAccessWins(accessToken, idToken) ==
    LET claims == decodeToken(Coalesce(idToken, accessToken))
        accessClaims == IF Truthy(idToken) THEN decodeToken(accessToken) ELSE claims
    IN  Spread(claims, accessClaims)

mergedClaims(accessToken, idToken) ==
    LET claims == decodeToken(Coalesce(idToken, accessToken))
        accessClaims == IF Truthy(idToken) THEN decodeToken(accessToken) ELSE claims
    IN  Spread(Spread(claims, accessClaims), claims)

\* a variant that takes the user from the decoded token alone, unmerged
buildSessionOneToken(accessToken, idToken, accessTokenExpiresAt, refreshTokenExpiresAt, clientId) ==
    IF buildSessionThrows(accessToken, idToken) THEN Thrown
    ELSE [ type |-> "session",
           user |-> extractUser(decodeToken(Coalesce(idToken, accessToken)), clientId),
           accessToken |-> accessToken,
           idToken |-> Coalesce(idToken, accessToken),
           accessTokenExpiresAt |-> CoalesceNum(accessTokenExpiresAt, 0),
           refreshTokenExpiresAt |-> CoalesceNum(refreshTokenExpiresAt, 0) ]

buildSession(accessToken, idToken, accessTokenExpiresAt, refreshTokenExpiresAt, clientId) ==
    IF buildSessionThrows(accessToken, idToken) THEN Thrown
    ELSE [ type |-> "session",
           user |-> extractUser(mergedClaims(accessToken, idToken), clientId),
           accessToken |-> accessToken,
           idToken |-> Coalesce(idToken, accessToken),
           accessTokenExpiresAt |-> CoalesceNum(accessTokenExpiresAt, 0),
           refreshTokenExpiresAt |-> CoalesceNum(refreshTokenExpiresAt, 0) ]

(***************************************************************************)
(* session/cookies: the operations on the token keys and the PKCE keys.    *)
(***************************************************************************)
\* a variant that leaves the id-token key as it was
setTokenCookiesNoIdToken(c, t, tokens, prefix) ==
    LET names == getCookieNames(prefix)
        c1 == CookieSet(c, t, names.accessToken, tokens.access_token,
                        TRUE, tokens.expires_in)
        c2 == CookieSet(c1, t, names.refreshToken, tokens.refresh_token,
                        TRUE, tokens.refresh_expires_in)
        c4 == CookieSet(c2, t, names.expiresAt,
                        NumToString(tokens.access_token_expires_at),
                        FALSE, tokens.refresh_expires_in)
    IN  CookieSet(c4, t, names.refreshExpiresAt,
                  NumToString(tokens.refresh_token_expires_at),
                  FALSE, tokens.refresh_expires_in)

\* a variant that leaves an id token that is already stored where it is
setTokenCookiesKeepIdToken(c, t, tokens, prefix) ==
    LET names == getCookieNames(prefix)
        c1 == CookieSet(c, t, names.accessToken, tokens.access_token,
                        TRUE, tokens.expires_in)
        c2 == CookieSet(c1, t, names.refreshToken, tokens.refresh_token,
                        TRUE, tokens.refresh_expires_in)
        c3 == IF c2[names.idToken].present THEN c2
              ELSE CookieSet(c2, t, names.idToken, tokens.id_token,
                             TRUE, tokens.expires_in)
        c4 == CookieSet(c3, t, names.expiresAt,
                        NumToString(tokens.access_token_expires_at),
                        FALSE, tokens.refresh_expires_in)
    IN  CookieSet(c4, t, names.refreshExpiresAt,
                  NumToString(tokens.refresh_token_expires_at),
                  FALSE, tokens.refresh_expires_in)

setTokenCookies(c, t, tokens, prefix) ==
    LET names == getCookieNames(prefix)
        c1 == CookieSet(c, t, names.accessToken, tokens.access_token,
                        TRUE, tokens.expires_in)
        c2 == CookieSet(c1, t, names.refreshToken, tokens.refresh_token,
                        TRUE, tokens.refresh_expires_in)
        c3 == CookieSet(c2, t, names.idToken, tokens.id_token,
                        TRUE, tokens.expires_in)
        c4 == CookieSet(c3, t, names.expiresAt,
                        NumToString(tokens.access_token_expires_at),
                        FALSE, tokens.refresh_expires_in)
    IN  CookieSet(c4, t, names.refreshExpiresAt,
                  NumToString(tokens.refresh_token_expires_at),
                  FALSE, tokens.refresh_expires_in)

getTokenCookies(c, prefix) ==
    LET names == getCookieNames(prefix)
        expiresAtStr == CookieGet(c, names.expiresAt)
        refreshExpiresAtStr == CookieGet(c, names.refreshExpiresAt)
    IN  [ accessToken |-> CookieGet(c, names.accessToken),
          refreshToken |-> CookieGet(c, names.refreshToken),
          idToken |-> CookieGet(c, names.idToken),
          expiresAt |->
              IF Truthy(expiresAtStr) THEN ParseInt(expiresAtStr) ELSE NoNum,
          refreshExpiresAt |->
              IF Truthy(refreshExpiresAtStr) THEN ParseInt(refreshExpiresAtStr)
              ELSE NoNum ]

clearTokenCookies(c, prefix) ==
    LET names == getCookieNames(prefix) IN
    CookieDelete(CookieDelete(CookieDelete(CookieDelete(CookieDelete(c,
        names.accessToken), names.refreshToken), names.idToken),
        names.expiresAt), names.refreshExpiresAt)

PKCE_MAX_AGE == 300

\* a variant that leaves a code verifier that is already stored where it is
setPKCECookiesKeepVerifier(c, t, codeVerifier, state, returnTo, prefix) ==
    LET names == getCookieNames(prefix)
        c1 == IF c[names.codeVerifier].present THEN c
              ELSE CookieSet(c, t, names.codeVerifier, codeVerifier, TRUE, PKCE_MAX_AGE)
        c2 == CookieSet(c1, t, names.state, state, TRUE, PKCE_MAX_AGE)
    IN  CookieSet(c2, t, names.returnTo, returnTo, FALSE, PKCE_MAX_AGE)

\* a variant that stores the state readable by scripts
setPKCECookiesReadableState(c, t, codeVerifier, state, returnTo, prefix) ==
    LET names == getCookieNames(prefix)
        c1 == CookieSet(c, t, names.codeVerifier, codeVerifier, TRUE, PKCE_MAX_AGE)
        c2 == CookieSet(c1, t, names.state, state, FALSE, PKCE_MAX_AGE)
    IN  CookieSet(c2, t, names.returnTo, returnTo, FALSE, PKCE_MAX_AGE)

setPKCECookies(c, t, codeVerifier, state, returnTo, prefix) ==
    LET names == getCookieNames(prefix)
        c1 == CookieSet(c, t, names.codeVerifier, codeVerifier, TRUE, PKCE_MAX_AGE)
        c2 == CookieSet(c1, t, names.state, state, TRUE, PKCE_MAX_AGE)
    IN  CookieSet(c2, t, names.returnTo, returnTo, FALSE, PKCE_MAX_AGE)

getPKCECookies(c, prefix) ==
    LET names == getCookieNames(prefix) IN
    [ codeVerifier |-> CookieGet(c, names.codeVerifier),
      state |-> CookieGet(c, names.state),
      returnTo |-> CookieGet(c, names.returnTo) ]

clearPKCECookies(c, prefix) ==
    LET names == getCookieNames(prefix) IN
    CookieDelete(CookieDelete(CookieDelete(c,
        names.codeVerifier), names.state), names.returnTo)

(***************************************************************************)
(* oidc/pkce.  Secure random values are fresh: the n-th login start draws  *)
(* the verifier <<"cv", n>> and the state <<"st", n>>; SHA-256 followed by *)
(* base64url is an injective function of the verifier.                     *)
(***************************************************************************)
generateCodeVerifier(n) == << "cv", n >>
generateCodeChallenge(verifier) == << "S256" >> \o verifier
generateState(n) == << "st", n >>

(***************************************************************************)
(* oidc/discovery.                                                         *)
(***************************************************************************)
RequiredFields ==
    { "authorization_endpoint", "token_endpoint", "end_session_endpoint",
      "jwks_uri", "issuer" }

\* discovery.ts:13-16; a trailing "/" of url is dropped
getRealmUrl(url, realm) ==
    LET base == IF Len(url) > 0 /\ url[Len(url)] = "/"
                THEN SubSeq(url, 1, Len(url) - 1) ELSE url
    IN  base \o <<"/realms/">> \o realm

\* discovery.ts:26 `${url}:${realm}`
cacheKey(url, realm) == url \o <<":">> \o realm

\* the document the provider serves for config's realm
ProviderDocument ==
    LET issuer == getRealmUrl(ConfigOf(NoNum).url, ConfigOf(NoNum).realm) IN
    [ authorization_endpoint |-> issuer \o <<"/auth">>,
      token_endpoint |-> issuer \o <<"/token">>,
      userinfo_endpoint |-> issuer \o <<"/userinfo">>,
      end_session_endpoint |-> issuer \o <<"/logout">>,
      jwks_uri |-> issuer \o <<"/certs">>,
      introspection_endpoint |-> issuer \o <<"/introspect">>,
      issuer |-> issuer ]

\* the documents a 2xx discovery answer may carry: the whole one, or one
\* with a field left out
Documents ==
    { ProviderDocument } \cup
    { [ ProviderDocument EXCEPT ![f] = NULL ] : f \in DOMAIN ProviderDocument }

NoEndpoints == [ f \in DOMAIN ProviderDocument |-> NULL ]
NoCache == [ present |-> FALSE, endpoints |-> NoEndpoints, expiresAt |-> 0 ]

\* a variant that still answers from the cache at the instant of expiry
CacheHitInclusive == cache.present /\ DateNowMs <= cache.expiresAt

\* discovery.ts:29, the cache answers
CacheHit == cache.present /\ DateNowMs < cache.expiresAt

\* a variant that does not ask for jwks_uri
DocumentCompleteNoJwks(doc) == \A f \in RequiredFields \ { "jwks_uri" } : Truthy(doc[f])

\* discovery.ts:65-71, no required field of the document is missing
DocumentComplete(doc) == \A f \in RequiredFields : Truthy(doc[f])

\* a variant that keeps the expiry of the entry it finds
CacheEntryKeepExpiry(doc) ==
    [ present |-> TRUE, endpoints |-> doc,
      expiresAt |-> IF cache.present THEN cache.expiresAt
                    ELSE DateNowMs + CACHE_TTL_MS ]

\* discovery.ts:73-76
CacheEntry(doc) ==
    [ present |-> TRUE, endpoints |-> doc, expiresAt |-> DateNowMs + CACHE_TTL_MS ]

(***************************************************************************)
(* Requests.  A request is idle, runs one handler, and is done when the    *)
(* handler has returned (result) or thrown.                                *)
(***************************************************************************)
NoRequest == [ code |-> NULL, state |-> NULL, error |-> NULL, returnTo |-> NULL ]
NoTokenCookies ==
    [ accessToken |-> NULL, refreshToken |-> NULL, idToken |-> NULL,
      expiresAt |-> NoNum, refreshExpiresAt |-> NoNum ]
NoPKCECookies == [ codeVerifier |-> NULL, state |-> NULL, returnTo |-> NULL ]
NoBody ==
    [ grant_type |-> NULL, code |-> NULL, redirect_uri |-> NULL,
      code_verifier |-> NULL, refresh_token |-> NULL ]

\* the answer to a discovery fetch: none yet, a 2xx answer with a document,
\* or a failure (the fetch rejects, the status is no 2xx)
NoAnswer == [ ok |-> FALSE, failed |-> FALSE, document |-> NoEndpoints ]
OkAnswer(doc) == [ ok |-> TRUE, failed |-> FALSE, document |-> doc ]
FailedAnswer == [ ok |-> FALSE, failed |-> TRUE, document |-> NoEndpoints ]

IdleProc ==
    [ kind |-> "idle", pc |-> "idle",
      request |-> NoRequest,            \* the query parameters of the request
      tokenCookies |-> NoTokenCookies,  \* what getTokenCookies returned
      pkceCookies |-> NoPKCECookies,    \* what getPKCECookies returned
      readAt |-> 0,                     \* the clock when the handler read the store
      answer |-> NoAnswer,              \* what the discovery fetch answered
      endpoints |-> NoEndpoints,        \* what discoverEndpoints returned
      body |-> NoBody,                  \* the form body of the token request
      newTokens |-> NoTokens,           \* the normalized token response
      result |-> [ type |-> "none" ],
      nDiscovery |-> 0,                 \* discovery fetches issued
      nToken |-> 0,                     \* token-endpoint POSTs issued
      nRefresh |-> 0,                   \* calls of refreshAccessToken
      nExchange |-> 0 ]                 \* calls of exchangeCodeForTokens

Done(pr, result) == [ pr EXCEPT !.pc = "done", !.result = result ]

Redirect(target, params) == [ type |-> "redirect", target |-> target, params |-> params ]
Json(status, error) == [ type |-> "json", status |-> status, error |-> error ]

\* The first piece of a URL string that begins with a scheme and a host.
Origins == { "https://app.test", "https://idp.test" }
IsAbsoluteUrl(url) == Len(url) > 0 /\ url[1] \in Origins

\* NextResponse.redirect(url) with a string: the framework parses it with
\* new URL(url) and throws on a string that is no absolute URL
NextResponseRedirect(url) ==
    IF IsAbsoluteUrl(url) THEN Redirect(url, << >>) ELSE Thrown

cookiePrefix == Coalesce(config.cookieName, DEFAULT_COOKIE_PREFIX)
\* a variant that ignores config.refreshMarginSeconds
refreshMarginDefault == DefaultRefreshMargin
refreshMargin == CoalesceNum(config.refreshMarginSeconds, DefaultRefreshMargin)
\* a variant that always builds the callback URL from the request
redirectUriFromRequest ==
    BaseUrl \o Coalesce(config.authBasePath, <<"/api/auth">>) \o <<"/callback">>

\* login.ts:85-87, the same expression in the login handler
loginRedirectUri ==
    Coalesce(config.redirectUri,
             BaseUrl \o Coalesce(config.authBasePath, <<"/api/auth">>) \o <<"/callback">>)

\* config.redirectUri ?? `${baseUrl}${authBasePath}/callback`
redirectUri ==
    Coalesce(config.redirectUri,
             BaseUrl \o Coalesce(config.authBasePath, <<"/api/auth">>) \o <<"/callback">>)

(***************************************************************************)
(* How each handler goes on when discoverEndpoints returns or throws, and  *)
(* when the token request fails.                                           *)
(***************************************************************************)
\* the POST of exchangeCodeForTokens / refreshAccessToken goes out
fetchToken(pr, endpoints) ==
    [ pr EXCEPT !.pc = "token", !.endpoints = endpoints, !.nToken = @ + 1 ]

\* a variant that looks the id token up when it builds the URL
logoutRedirectLateRead(pr, endpoints) ==
    Done([ pr EXCEPT !.endpoints = endpoints ],
         Redirect(endpoints.end_session_endpoint,
                  [ post_logout_redirect_uri |->
                        Coalesce(pr.request.returnTo,
                                 Coalesce(config.postLogoutRedirectUri, BaseUrl)),
                    client_id |-> config.clientId,
                    id_token_hint |->
                        IF Truthy(getTokenCookies(cookies, cookiePrefix).idToken)
                        THEN getTokenCookies(cookies, cookiePrefix).idToken ELSE NULL ]))

\* logout.ts:38-49
logoutRedirect(pr, endpoints) ==
    Done([ pr EXCEPT !.endpoints = endpoints ],
         Redirect(endpoints.end_session_endpoint,
                  [ post_logout_redirect_uri |->
                        Coalesce(pr.request.returnTo,
                                 Coalesce(config.postLogoutRedirectUri, BaseUrl)),
                    client_id |-> config.clientId,
                    id_token_hint |->
                        IF Truthy(pr.tokenCookies.idToken)
                        THEN pr.tokenCookies.idToken ELSE NULL ]))

\* logout.ts:50-53
logoutFallback(pr) ==
    Done(pr, NextResponseRedirect(
                 Coalesce(pr.request.returnTo,
                          Coalesce(config.postLogoutRedirectUri, BaseUrl))))

\* a variant that sends the user home when the exchange fails
callbackFailureRedirect(pr) == Done(pr, Redirect(BaseUrl \o <<"/">>, << >>))

\* callback.ts:88-96
callbackFailure(pr) == Done(pr, Json(500, "Token exchange failed"))

\* session.ts:63-66
getSessionFailure(pr) == Done(pr, NullResult)

onEndpoints(pr, endpoints) ==
    CASE pr.kind \in { "getSession", "callback" } -> fetchToken(pr, endpoints)
      [] pr.kind = "login" -> [ pr EXCEPT !.pc = "persist", !.endpoints = endpoints ]
      [] pr.kind = "logout" -> logoutRedirect(pr, endpoints)

\* a variant in which a login start goes on without endpoints
onDiscoveryErrorLoginGoesOn(pr) ==
    CASE pr.kind = "getSession" -> getSessionFailure(pr)
      [] pr.kind = "callback" -> callbackFailure(pr)
      [] pr.kind = "login" -> [ pr EXCEPT !.pc = "persist" ]
      [] pr.kind = "logout" -> logoutFallback(pr)

onDiscoveryError(pr) ==
    CASE pr.kind = "getSession" -> getSessionFailure(pr)
      [] pr.kind = "callback" -> callbackFailure(pr)
      [] pr.kind = "login" -> Done(pr, Thrown)
      [] pr.kind = "logout" -> logoutFallback(pr)

\* a variant that sends the token request a second time before giving up
onTokenErrorRetry(pr) ==
    IF pr.nToken < 2 THEN [ pr EXCEPT !.nToken = @ + 1 ]
    ELSE CASE pr.kind = "getSession" -> getSessionFailure(pr)
           [] pr.kind = "callback" -> callbackFailure(pr)

\* jwt.ts:133-138 / 171-176: the error reaches the caller's catch
onTokenError(pr) ==
    CASE pr.kind = "getSession" -> getSessionFailure(pr)
      [] pr.kind = "callback" -> callbackFailure(pr)

\* discovery.ts:26-36: the cached document, or the fetch goes out
discoverEndpoints(pr) ==
    IF CacheHit THEN onEndpoints(pr, cache.endpoints)
    ELSE [ pr EXCEPT !.pc = "discovery", !.nDiscovery = @ + 1 ]

\* token.ts refreshAccessToken up to its first network request
refreshAccessToken(pr, refreshToken) ==
    discoverEndpoints(
        [ pr EXCEPT !.nRefresh = @ + 1,
                    !.body = [ NoBody EXCEPT !.grant_type = "refresh_token",
                                             !.refresh_token = refreshToken ] ])

\* token.ts exchangeCodeForTokens up to its first network request
exchangeCodeForTokens(pr, code, codeVerifier, uri) ==
    discoverEndpoints(
        [ pr EXCEPT !.nExchange = @ + 1,
                    !.body = [ NoBody EXCEPT !.grant_type = "authorization_code",
                                             !.code = code,
                                             !.redirect_uri = uri,
                                             !.code_verifier = codeVerifier ] ])

\* a variant without the check of the refresh token's expiry
getSessionRefreshAlways(pr) ==
    LET tokenCookies == pr.tokenCookies IN
    IF ~Truthy(tokenCookies.accessToken) /\ ~Truthy(tokenCookies.refreshToken)
    THEN Done(pr, NullResult)
    ELSE IF /\ Truthy(tokenCookies.accessToken)
            /\ TruthyNum(tokenCookies.expiresAt)
            /\ ~isTokenExpired(tokenCookies.expiresAt, refreshMargin)
    THEN Done(pr, buildSession(tokenCookies.accessToken, tokenCookies.idToken,
                               tokenCookies.expiresAt, tokenCookies.refreshExpiresAt,
                               config.clientId))
    ELSE IF Truthy(tokenCookies.refreshToken)
    THEN refreshAccessToken(pr, tokenCookies.refreshToken)
    ELSE Done(pr, NullResult)

(***************************************************************************)
(* session.ts getSession, from the call to its first network request.      *)
(***************************************************************************)
\* a variant that takes an access token without a stored expiry for valid
getSessionExpiryOptional(pr) ==
    LET tokenCookies == pr.tokenCookies IN
    IF ~Truthy(tokenCookies.accessToken) /\ ~Truthy(tokenCookies.refreshToken)
    THEN Done(pr, NullResult)
    ELSE IF /\ Truthy(tokenCookies.accessToken)
            /\ \/ ~TruthyNum(tokenCookies.expiresAt)
               \/ ~isTokenExpired(tokenCookies.expiresAt, refreshMargin)
    THEN Done(pr, buildSession(tokenCookies.accessToken, tokenCookies.idToken,
                               tokenCookies.expiresAt, tokenCookies.refreshExpiresAt,
                               config.clientId))
    ELSE IF Truthy(tokenCookies.refreshToken)
    THEN IF /\ TruthyNum(tokenCookies.refreshExpiresAt)
            /\ isTokenExpired(tokenCookies.refreshExpiresAt, 0)
         THEN Done(pr, NullResult)
         ELSE refreshAccessToken(pr, tokenCookies.refreshToken)
    ELSE Done(pr, NullResult)

getSession(pr) ==
    LET tokenCookies == pr.tokenCookies IN
    IF ~Truthy(tokenCookies.accessToken) /\ ~Truthy(tokenCookies.refreshToken)
    THEN Done(pr, NullResult)
    ELSE IF /\ Truthy(tokenCookies.accessToken)
            /\ TruthyNum(tokenCookies.expiresAt)
            /\ ~isTokenExpired(tokenCookies.expiresAt, refreshMargin)
    THEN Done(pr, buildSession(tokenCookies.accessToken, tokenCookies.idToken,
                               tokenCookies.expiresAt, tokenCookies.refreshExpiresAt,
                               config.clientId))
    ELSE IF Truthy(tokenCookies.refreshToken)
    THEN IF /\ TruthyNum(tokenCookies.refreshExpiresAt)
            /\ isTokenExpired(tokenCookies.refreshExpiresAt, 0)
         THEN Done(pr, NullResult)
         ELSE refreshAccessToken(pr, tokenCookies.refreshToken)
    ELSE Done(pr, NullResult)

\* session.ts:54-62, after the token set came back; a throw of buildSession
\* lands in the catch of session.ts:63
getSessionResult(newTokens) ==
    LET session == buildSession(newTokens.access_token, newTokens.id_token,
                                newTokens.access_token_expires_at,
                                newTokens.refresh_token_expires_at, config.clientId)
    IN  IF session.type = "throw" THEN NullResult ELSE session

\* a variant that hands the id token to the browser as well
sessionHandlerWithIdToken(result) ==
    IF result.type = "throw"
    THEN [ authenticated |-> FALSE, user |-> NULL, error |-> "Session check failed" ]
    ELSE IF result.type = "null"
    THEN [ authenticated |-> FALSE, user |-> NULL ]
    ELSE [ authenticated |-> TRUE,
           user |-> result.user,
           accessToken |-> result.accessToken,
           idToken |-> result.idToken,
           accessTokenExpiresAt |-> result.accessTokenExpiresAt,
           refreshTokenExpiresAt |-> result.refreshTokenExpiresAt ]

\* session-api.ts:16-44: the JSON body (status 200 on every path) that
\* sessionHandler makes of what getSession returned or threw
sessionHandler(result) ==
    IF result.type = "throw"
    THEN [ authenticated |-> FALSE, user |-> NULL, error |-> "Session check failed" ]
    ELSE IF result.type = "null"
    THEN [ authenticated |-> FALSE, user |-> NULL ]
    ELSE [ authenticated |-> TRUE,
           user |-> result.user,
           accessToken |-> result.accessToken,
           accessTokenExpiresAt |-> result.accessTokenExpiresAt,
           refreshTokenExpiresAt |-> result.refreshTokenExpiresAt ]

\* a variant that looks at the error parameter last
callbackHandlerErrorLast(pr, store) ==
    LET code == pr.request.code
        state == pr.request.state
        error == pr.request.error
        pkceCookies == getPKCECookies(store, cookiePrefix)
        read == [ pr EXCEPT !.pkceCookies = pkceCookies ]
    IN  IF ~Truthy(code)
        THEN Done(pr, Json(400, "Missing authorization code"))
        ELSE IF ~Truthy(state) \/ ~Truthy(pkceCookies.state) \/ state # pkceCookies.state
        THEN Done(read, Json(403, "Invalid state parameter"))
        ELSE IF ~Truthy(pkceCookies.codeVerifier)
        THEN Done(read, Json(400, "Missing PKCE code verifier"))
        ELSE IF Truthy(error)
        THEN Done(pr, Redirect(BaseUrl \o <<"/auth/error">>, [ error |-> error ]))
        ELSE exchangeCodeForTokens(read, code, pkceCookies.codeVerifier, redirectUri)

\* a variant that compares the state before it looks for the code
callbackHandlerStateFirst(pr, store) ==
    LET code == pr.request.code
        state == pr.request.state
        error == pr.request.error
        pkceCookies == getPKCECookies(store, cookiePrefix)
        read == [ pr EXCEPT !.pkceCookies = pkceCookies ]
    IN  IF Truthy(error)
        THEN Done(pr, Redirect(BaseUrl \o <<"/auth/error">>, [ error |-> error ]))
        ELSE IF ~Truthy(state) \/ ~Truthy(pkceCookies.state) \/ state # pkceCookies.state
        THEN Done(read, Json(403, "Invalid state parameter"))
        ELSE IF ~Truthy(code)
        THEN Done(pr, Json(400, "Missing authorization code"))
        ELSE IF ~Truthy(pkceCookies.codeVerifier)
        THEN Done(read, Json(400, "Missing PKCE code verifier"))
        ELSE exchangeCodeForTokens(read, code, pkceCookies.codeVerifier, redirectUri)

\* a variant that compares no state
callbackHandlerNoStateCheck(pr, store) ==
    LET code == pr.request.code
        error == pr.request.error
        pkceCookies == getPKCECookies(store, cookiePrefix)
        read == [ pr EXCEPT !.pkceCookies = pkceCookies ]
    IN  IF Truthy(error)
        THEN Done(pr, Redirect(BaseUrl \o <<"/auth/error">>, [ error |-> error ]))
        ELSE IF ~Truthy(code)
        THEN Done(pr, Json(400, "Missing authorization code"))
        ELSE IF ~Truthy(pkceCookies.codeVerifier)
        THEN Done(read, Json(400, "Missing PKCE code verifier"))
        ELSE exchangeCodeForTokens(read, code, pkceCookies.codeVerifier, redirectUri)

(***************************************************************************)
(* callback.ts callbackHandler, from the request to its first network      *)
(* request.  pkceCookies are read only once error and code are checked.    *)
(***************************************************************************)
callbackHandler(pr, store) ==
    LET code == pr.request.code
        state == pr.request.state
        error == pr.request.error
        pkceCookies == getPKCECookies(store, cookiePrefix)
        read == [ pr EXCEPT !.pkceCookies = pkceCookies ]
    IN  IF Truthy(error)
        THEN Done(pr, Redirect(BaseUrl \o <<"/auth/error">>, [ error |-> error ]))
        ELSE IF ~Truthy(code)
        THEN Done(pr, Json(400, "Missing authorization code"))
        ELSE IF ~Truthy(state) \/ ~Truthy(pkceCookies.state) \/ state # pkceCookies.state
        THEN Done(read, Json(403, "Invalid state parameter"))
        ELSE IF ~Truthy(pkceCookies.codeVerifier)
        THEN Done(read, Json(400, "Missing PKCE code verifier"))
        ELSE exchangeCodeForTokens(read, code, pkceCookies.codeVerifier, redirectUri)

\* a variant that always redirects to the home page
callbackRedirectHome(pr) == Redirect(BaseUrl \o <<"/">>, << >>)

\* callback.ts:85-87
callbackRedirect(pr) ==
    Redirect(BaseUrl \o Coalesce(pr.pkceCookies.returnTo, <<"/">>), << >>)

\* a variant that sends the verifier itself as the challenge
loginRedirectPlainChallenge(pr, codeVerifier, state) ==
    Redirect(pr.endpoints.authorization_endpoint,
             [ client_id |-> config.clientId,
               response_type |-> "code",
               redirect_uri |-> loginRedirectUri,
               scope |-> Dedupe(<< "openid", "profile", "email" >>),
               state |-> state,
               code_challenge |-> codeVerifier,
               code_challenge_method |-> "S256" ])

(***************************************************************************)
(* login.ts loginHandler after discovery: lines 81-107.                    *)
(***************************************************************************)
loginRedirect(pr, codeVerifier, state) ==
    Redirect(pr.endpoints.authorization_endpoint,
             [ client_id |-> config.clientId,
               response_type |-> "code",
               redirect_uri |-> loginRedirectUri,
               scope |-> Dedupe(<< "openid", "profile", "email" >>),
               state |-> state,
               code_challenge |-> generateCodeChallenge(codeVerifier),
               code_challenge_method |-> "S256" ])

(***************************************************************************)
(* What the environment may send and answer.                               *)
(***************************************************************************)
\* lifetimes the provider grants, in seconds
Lifetimes == { << 1, 3 >>, << 3, 1 >> }
\* the provider issues well-formed JWTs with Keycloak's default mapping
Profiles == { "std" }

\* the state parameter of a callback: absent, empty, forged, or a value
\* some login start has issued
States == { NULL, EMPTY, << "st", 0 >> } \cup { << "st", n >> : n \in 1..(nextLogin - 1) }

\* the callback requests <<code, state, error>> that come in
CallbackRequests ==
    { << << "code" >>, state, NULL >> : state \in States }
    \cup { << NULL, << "st", 0 >>, NULL >>, << << "code" >>, NULL, << "access_denied" >> >> }
LoginReturnTos == { NULL }
LogoutReturnTos == { NULL }

(***************************************************************************)
(* Actions.  Each one is a stretch of one handler that runs without        *)
(* interruption; `Step` records whether it changed the cookie store.       *)
(***************************************************************************)
\* A handler's return is looked at before anything else happens: Finish
\* only forgets the locals of a request that is done.
NoneDone == \A q \in Procs : procs[q].pc # "done"

\* A request may come in on p.  The requests are interchangeable, so the
\* second one is used only while the first one is busy.
Idle(p) ==
    /\ procs[p].pc = "idle"
    /\ p = "r2" => procs["r1"].pc # "idle"

Step(p, pr, store) ==
    /\ NoneDone
    /\ procs' = [ procs EXCEPT ![p] = pr ]
    /\ cookies' = store
    /\ wrote' = [ wrote EXCEPT ![p] = @ \/ store # cookies ]

\* a variant that signs the user out when it finds the refresh token expired
GetSessionStartClearing(p) ==
    /\ Idle(p)
    /\ nRequests < MaxRequests
    /\ nRequests' = nRequests + 1
    /\ LET pr == getSession([ IdleProc EXCEPT !.kind = "getSession",
                                              !.readAt = now,
                                              !.tokenCookies =
                                                  getTokenCookies(cookies, cookiePrefix) ])
       IN  Step(p, pr,
                IF pr.pc = "done" /\ pr.result = NullResult
                THEN clearTokenCookies(cookies, cookiePrefix) ELSE cookies)
    /\ UNCHANGED << now, config, cache, nextRid, nextLogin, exchanges, loginUri, cachedAt, args, value, atClear, loggedOut >>

\* GET /api/auth/session, or any server-side caller: getSession(config)
GetSessionStart(p) ==
    /\ Idle(p)
    /\ nRequests < MaxRequests
    /\ nRequests' = nRequests + 1
    /\ Step(p, getSession([ IdleProc EXCEPT !.kind = "getSession",
                                            !.readAt = now,
                                            !.tokenCookies =
                                                getTokenCookies(cookies, cookiePrefix) ]),
            cookies)
    /\ UNCHANGED << now, config, cache, nextRid, nextLogin, exchanges, loginUri, cachedAt, args, value, atClear, loggedOut >>

\* a variant that persists only over the token set it has read
GetSessionPersistIfUnchanged(p) ==
    /\ procs[p].kind = "getSession" /\ procs[p].pc = "persist"
    /\ Step(p, Done(procs[p], getSessionResult(procs[p].newTokens)),
            IF getTokenCookies(cookies, cookiePrefix).refreshToken
                   = procs[p].tokenCookies.refreshToken
            THEN setTokenCookies(cookies, now, procs[p].newTokens, cookiePrefix)
            ELSE cookies)
    /\ UNCHANGED << now, config, cache, nextRid, nextLogin, nRequests, exchanges, loginUri, cachedAt, args, value, atClear, loggedOut >>

\* session.ts:54-62
GetSessionPersist(p) ==
    /\ procs[p].kind = "getSession" /\ procs[p].pc = "persist"
    /\ Step(p, Done(procs[p], getSessionResult(procs[p].newTokens)),
            setTokenCookies(cookies, now, procs[p].newTokens, cookiePrefix))
    /\ UNCHANGED << now, config, cache, nextRid, nextLogin, nRequests, exchanges, loginUri, cachedAt, args, value, atClear, loggedOut >>

\* GET /api/auth/callback?code=..&state=..&error=..
CallbackStart(p, code, state, error) ==
    /\ Idle(p)
    /\ nRequests < MaxRequests
    /\ nRequests' = nRequests + 1
    /\ LET pr == callbackHandler([ IdleProc EXCEPT !.kind = "callback",
                                                   !.request.code = code,
                                                   !.request.state = state,
                                                   !.request.error = error ],
                                 cookies)
       IN  /\ Step(p, pr, cookies)
           /\ exchanges' =
                 IF pr.nExchange > 0
                 THEN [ exchanges EXCEPT ![pr.body.code_verifier[2]] = @ + 1 ]
                 ELSE exchanges
    /\ UNCHANGED << now, config, cache, nextRid, nextLogin, loginUri, cachedAt, args, value, atClear, loggedOut >>

\* callback.ts:80
CallbackPersist(p) ==
    /\ procs[p].kind = "callback" /\ procs[p].pc = "persist"
    /\ Step(p, [ procs[p] EXCEPT !.pc = "clear" ],
            setTokenCookies(cookies, now, procs[p].newTokens, cookiePrefix))
    /\ loggedOut' = FALSE
    /\ UNCHANGED << now, config, cache, nextRid, nextLogin, nRequests, exchanges, loginUri, cachedAt, args, value, atClear >>

\* callback.ts:83-87
CallbackClear(p) ==
    /\ procs[p].kind = "callback" /\ procs[p].pc = "clear"
    /\ Step(p, Done(procs[p], callbackRedirect(procs[p])),
            clearPKCECookies(cookies, cookiePrefix))
    /\ UNCHANGED << now, config, cache, nextRid, nextLogin, nRequests, exchanges, loginUri, cachedAt, args, value, atClear, loggedOut >>

\* GET /api/auth/login?returnTo=..: login.ts:77-80
LoginStart(p, returnTo) ==
    /\ Idle(p)
    /\ nRequests < MaxRequests
    /\ nRequests' = nRequests + 1
    /\ nextLogin <= MaxLogin
    /\ Step(p, discoverEndpoints([ IdleProc EXCEPT !.kind = "login",
                                                   !.request.returnTo =
                                                       Coalesce(returnTo, <<"/">>) ]),
            cookies)
    /\ UNCHANGED << now, config, cache, nextRid, nextLogin, exchanges, loginUri, cachedAt, args, value, atClear, loggedOut >>

\* login.ts:81-107
LoginPersist(p) ==
    /\ procs[p].kind = "login" /\ procs[p].pc = "persist"
    /\ nextLogin <= MaxLogin
    /\ LET codeVerifier == generateCodeVerifier(nextLogin)
           state == generateState(nextLogin)
           response == loginRedirect(procs[p], codeVerifier, state)
       IN  /\ Step(p, Done(procs[p], response),
                   setPKCECookies(cookies, now, codeVerifier, state,
                                  procs[p].request.returnTo, cookiePrefix))
           /\ loginUri' = [ loginUri EXCEPT ![nextLogin] = response.params.redirect_uri ]
    /\ nextLogin' = nextLogin + 1
    /\ UNCHANGED << now, config, cache, nextRid, nRequests, exchanges, cachedAt, args, value, atClear, loggedOut >>

\* GET /api/auth/logout?returnTo=..: logout.ts:19-29
LogoutStart(p, returnTo) ==
    /\ Idle(p)
    /\ nRequests < MaxRequests
    /\ nRequests' = nRequests + 1
    /\ Step(p, [ IdleProc EXCEPT !.kind = "logout", !.pc = "clear",
                                 !.request.returnTo = returnTo,
                                 !.tokenCookies =
                                     getTokenCookies(cookies, cookiePrefix) ],
            cookies)
    /\ UNCHANGED << now, config, cache, nextRid, nextLogin, exchanges, loginUri, cachedAt, args, value, atClear, loggedOut >>

\* logout.ts:32-36
LogoutClear(p) ==
    /\ procs[p].kind = "logout" /\ procs[p].pc = "clear"
    /\ Step(p, discoverEndpoints(procs[p]), clearTokenCookies(cookies, cookiePrefix))
    /\ UNCHANGED << now, config, cache, nextRid, nextLogin, nRequests, exchanges, loginUri, cachedAt, args, value, atClear, loggedOut >>

\* discovery.ts:44-78: a 2xx answer carrying the document doc
DiscoveryResponse(p, doc) ==
    /\ procs[p].pc = "discovery"
    /\ IF DocumentComplete(doc)
       THEN /\ cache' = CacheEntry(doc)
            /\ cachedAt' = now
            /\ Step(p, onEndpoints([ procs[p] EXCEPT !.answer = OkAnswer(doc) ], doc),
                    cookies)
       ELSE /\ cache' = cache
            /\ cachedAt' = cachedAt
            /\ Step(p, onDiscoveryError([ procs[p] EXCEPT !.answer = OkAnswer(doc) ]),
                    cookies)
    /\ UNCHANGED << now, config, nextRid, nextLogin, nRequests, exchanges, loginUri, args, value, atClear, loggedOut >>

\* discovery.ts:36-42: the fetch rejects, or the answer is no 2xx
DiscoveryFail(p) ==
    /\ procs[p].pc = "discovery"
    /\ Step(p, onDiscoveryError([ procs[p] EXCEPT !.answer = FailedAnswer ]), cookies)
    /\ UNCHANGED << now, config, cache, nextRid, nextLogin, nRequests, exchanges, loginUri, cachedAt, args, value, atClear, loggedOut >>

\* token.ts:127-143 / 165-181: the token endpoint answers 2xx
TokenOk(p, profile, expiresIn, refreshExpiresIn) ==
    /\ procs[p].pc = "token"
    /\ nextRid <= MaxRid
    /\ Step(p, [ procs[p] EXCEPT
                   !.pc = "persist",
                   !.newTokens = normalizeTokenResponse(
                       TokenResponse(nextRid, profile, expiresIn, refreshExpiresIn)) ],
            cookies)
    /\ nextRid' = nextRid + 1
    /\ UNCHANGED << now, config, cache, nextLogin, nRequests, exchanges, loginUri, cachedAt, args, value, atClear, loggedOut >>

\* a variant that drops the stored credentials when the token request fails
TokenFailClearing(p) ==
    /\ procs[p].pc = "token"
    /\ Step(p, onTokenError(procs[p]), clearTokenCookies(cookies, cookiePrefix))
    /\ UNCHANGED << now, config, cache, nextRid, nextLogin, nRequests, exchanges, loginUri, cachedAt, args, value, atClear, loggedOut >>

\* token.ts:127-140 / 165-178: the fetch rejects or the answer is no 2xx
TokenFail(p) ==
    /\ procs[p].pc = "token"
    /\ Step(p, onTokenError(procs[p]), cookies)
    /\ UNCHANGED << now, config, cache, nextRid, nextLogin, nRequests, exchanges, loginUri, cachedAt, args, value, atClear, loggedOut >>

\* discovery.ts:84-86
clearDiscoveryCache ==
    /\ NoneDone
    /\ cache.present
    /\ cache' = NoCache
    /\ cachedAt' = 0
    /\ atClear' = [ p \in Procs |-> procs[p].pc ]
    /\ UNCHANGED << now, config, cookies, procs, wrote, nextRid, nextLogin, nRequests, exchanges, loginUri, args, value, loggedOut >>

\* the response has gone out
Finish(p) ==
    /\ procs[p].pc = "done"
    /\ procs' = [ procs EXCEPT ![p] = IdleProc ]
    /\ wrote' = [ wrote EXCEPT ![p] = FALSE ]
    /\ atClear' = [ atClear EXCEPT ![p] = "idle" ]
    /\ loggedOut' = (loggedOut \/ procs[p].kind = "logout")
    /\ UNCHANGED << now, config, cookies, cache, nextRid, nextLogin, nRequests, exchanges, loginUri, cachedAt, args, value >>

\* a second passes; the keys whose TTL has run out leave the store.  Time
\* before the first request changes nothing but the origin of the clock.
Tick ==
    /\ now < MaxTime
    /\ nRequests > 0
    /\ NoneDone
    /\ now' = now + 1
    /\ cookies' = ExpireCookies(cookies, now + 1)
    /\ UNCHANGED << config, cache, procs, wrote, nextRid, nextLogin, nRequests, exchanges, loginUri, cachedAt, args, value, atClear, loggedOut >>

Init ==
    /\ now = 1
    /\ config = ConfigOf(ConfigRefreshMargin)
    /\ cookies = [ k \in Keys |-> NoCookie ]
    /\ cache = NoCache
    /\ procs = [ p \in Procs |-> IdleProc ]
    /\ wrote = [ p \in Procs |-> FALSE ]
    /\ nextRid = 1
    /\ nextLogin = 1
    /\ nRequests = 0
    /\ exchanges = [ n \in 1..MaxLogin |-> 0 ]
    /\ loginUri = [ n \in 1..MaxLogin |-> NULL ]
    /\ cachedAt = 0
    /\ args = NoArgs
    /\ value = NoValue
    /\ atClear = [ p \in Procs |-> "idle" ]
    /\ loggedOut = FALSE

Next ==
    \/ \E p \in Procs : GetSessionStart(p)
    \/ \E p \in Procs : GetSessionPersist(p)
    \/ \E p \in Procs, r \in CallbackRequests : CallbackStart(p, r[1], r[2], r[3])
    \/ \E p \in Procs : CallbackPersist(p)
    \/ \E p \in Procs : CallbackClear(p)
    \/ \E p \in Procs, returnTo \in LoginReturnTos : LoginStart(p, returnTo)
    \/ \E p \in Procs : LoginPersist(p)
    \/ \E p \in Procs, returnTo \in LogoutReturnTos : LogoutStart(p, returnTo)
    \/ \E p \in Procs : LogoutClear(p)
    \/ \E p \in Procs, doc \in Documents : DiscoveryResponse(p, doc)
    \/ \E p \in Procs : DiscoveryFail(p)
    \/ \E p \in Procs, profile \in Profiles, life \in Lifetimes :
           TokenOk(p, profile, life[1], life[2])
    \/ \E p \in Procs : TokenFail(p)
    \/ \E p \in Procs : Finish(p)
    \/ Tick

Spec == Init /\ [][Next]_vars

(***************************************************************************)
(* The browser flows one request at a time: login start, callback and      *)
(* logout under every deployment setting that shapes a redirect, with      *)
(* every combination of callback parameters, and with a browser that may   *)
(* lose single cookies.                                                    *)
(***************************************************************************)
\* the deployments: redirectUri and postLogoutRedirectUri set or left out
Configs ==
    { [ ConfigOf(ConfigRefreshMargin) EXCEPT !.redirectUri = r,
                                             !.postLogoutRedirectUri = pl ] :
        r \in { NULL, << "https://app.test", "/cb" >> },
        pl \in { NULL, << "https://app.test", "/bye" >> } }

FlowCallbackRequests ==
    { << code, state, error >> :
        code \in { NULL, << "code" >> },
        state \in States,
        error \in { NULL, << "access_denied" >> } }
FlowReturnTos == { NULL, << "/dash" >> }
FlowLogoutReturnTos == { NULL, << "/dash" >>, << "https://app.test", "/out" >> }

\* the browser drops the cookie k (the user clears it, or it is evicted)
CookieDropped(k) ==
    /\ NoneDone
    /\ cookies[k].present
    /\ cookies' = CookieDelete(cookies, k)
    /\ UNCHANGED << now, config, cache, procs, wrote, nextRid, nextLogin, nRequests,
                    exchanges, loginUri, cachedAt, args, value, atClear, loggedOut >>

InitFlow ==
    /\ now = 1
    /\ config \in Configs
    /\ cookies = [ k \in Keys |-> NoCookie ]
    /\ cache = NoCache
    /\ procs = [ p \in Procs |-> IdleProc ]
    /\ wrote = [ p \in Procs |-> FALSE ]
    /\ nextRid = 1
    /\ nextLogin = 1
    /\ nRequests = 0
    /\ exchanges = [ n \in 1..MaxLogin |-> 0 ]
    /\ loginUri = [ n \in 1..MaxLogin |-> NULL ]
    /\ cachedAt = 0
    /\ args = NoArgs
    /\ value = NoValue
    /\ atClear = [ p \in Procs |-> "idle" ]
    /\ loggedOut = FALSE

NextFlow ==
    \/ \E r \in FlowCallbackRequests : CallbackStart("r1", r[1], r[2], r[3])
    \/ CallbackPersist("r1")
    \/ CallbackClear("r1")
    \/ \E returnTo \in FlowReturnTos : LoginStart("r1", returnTo)
    \/ LoginPersist("r1")
    \/ \E returnTo \in FlowLogoutReturnTos : LogoutStart("r1", returnTo)
    \/ LogoutClear("r1")
    \/ \E doc \in Documents : DiscoveryResponse("r1", doc)
    \/ DiscoveryFail("r1")
    \/ \E profile \in Profiles, life \in Lifetimes : TokenOk("r1", profile, life[1], life[2])
    \/ TokenFail("r1")
    \/ Finish("r1")
    \/ \E k \in PKCEKeys : CookieDropped(k)

SpecFlow == InitFlow /\ [][NextFlow]_vars

(***************************************************************************)
(* A signed-in browser meets a server instance that has just started: the  *)
(* store holds the token set a callback persisted a moment ago, the         *)
(* discovery cache of the instance is empty.  Session resolutions and      *)
(* logouts run concurrently.                                               *)
(***************************************************************************)
InitRestart ==
    /\ now = 1
    /\ config = ConfigOf(ConfigRefreshMargin)
    /\ cookies \in
          { setTokenCookies([ k \in Keys |-> NoCookie ], now,
                            normalizeTokenResponse(
                                TokenResponse(0, "std", life[1], life[2])),
                            DEFAULT_COOKIE_PREFIX) :
              life \in Lifetimes }
    /\ cache = NoCache
    /\ procs = [ p \in Procs |-> IdleProc ]
    /\ wrote = [ p \in Procs |-> FALSE ]
    /\ nextRid = 1
    /\ nextLogin = 1
    /\ nRequests = 0
    /\ exchanges = [ n \in 1..MaxLogin |-> 0 ]
    /\ loginUri = [ n \in 1..MaxLogin |-> NULL ]
    /\ cachedAt = 0
    /\ args = NoArgs
    /\ value = NoValue
    /\ atClear = [ p \in Procs |-> "idle" ]
    /\ loggedOut = FALSE

NextRestart ==
    \/ \E p \in Procs : GetSessionStart(p)
    \/ \E p \in Procs : GetSessionPersist(p)
    \/ \E p \in Procs, returnTo \in LogoutReturnTos : LogoutStart(p, returnTo)
    \/ \E p \in Procs : LogoutClear(p)
    \/ \E p \in Procs, doc \in Documents : DiscoveryResponse(p, doc)
    \/ \E p \in Procs : DiscoveryFail(p)
    \/ \E p \in Procs, profile \in Profiles, life \in Lifetimes :
           TokenOk(p, profile, life[1], life[2])
    \/ \E p \in Procs : TokenFail(p)
    \/ \E p \in Procs : Finish(p)
    \/ Tick

SpecRestart == InitRestart /\ [][NextRestart]_vars

(***************************************************************************)
(* The discovery cache over minutes: logins and logouts, which both begin  *)
(* with discoverEndpoints(config.url, config.realm), with long pauses      *)
(* between them.                                                           *)
(***************************************************************************)
\* the readings of the clock, minutes later, at which requests come in again
Instants == { MaxClock - 2, MaxClock - 1, MaxClock }

\* no request is in flight and the clock moves on to the instant t
Elapse(t) ==
    /\ t > now
    /\ nRequests > 0
    /\ \A p \in Procs : procs[p].pc = "idle"
    /\ now' = t
    /\ cookies' = ExpireCookies(cookies, t)
    /\ UNCHANGED << config, cache, procs, wrote, nextRid, nextLogin, nRequests,
                    exchanges, loginUri, cachedAt, args, value, atClear, loggedOut >>

NextTTL ==
    \/ \E p \in Procs, returnTo \in LoginReturnTos : LoginStart(p, returnTo)
    \/ \E p \in Procs : LoginPersist(p)
    \/ \E p \in Procs, returnTo \in LogoutReturnTos : LogoutStart(p, returnTo)
    \/ \E p \in Procs : LogoutClear(p)
    \/ \E p \in Procs, doc \in Documents : DiscoveryResponse(p, doc)
    \/ \E p \in Procs : DiscoveryFail(p)
    \/ \E p \in Procs : Finish(p)
    \/ Tick
    \/ \E t \in Instants : Elapse(t)

SpecTTL == Init /\ [][NextTTL]_vars

(***************************************************************************)
(* The discovery cache with clearDiscoveryCache called at any moment,      *)
(* also while discovery fetches are in flight.                             *)
(***************************************************************************)
NextCache ==
    \/ \E p \in Procs, returnTo \in LoginReturnTos : LoginStart(p, returnTo)
    \/ \E p \in Procs : LoginPersist(p)
    \/ \E p \in Procs, returnTo \in LogoutReturnTos : LogoutStart(p, returnTo)
    \/ \E p \in Procs : LogoutClear(p)
    \/ \E p \in Procs, doc \in Documents : DiscoveryResponse(p, doc)
    \/ \E p \in Procs : DiscoveryFail(p)
    \/ clearDiscoveryCache
    \/ \E p \in Procs : Finish(p)
    \/ Tick
    \/ \E t \in Instants : Elapse(t)

SpecCache == Init /\ [][NextCache]_vars

(***************************************************************************)
(* Functions applied on their own.  The arguments are drawn at the start,  *)
(* the function is applied once, no handler runs.                          *)
(***************************************************************************)
\* no request has come in and none does
Standstill ==
    /\ config = ConfigOf(ConfigRefreshMargin)
    /\ cookies = [ k \in Keys |-> NoCookie ]
    /\ cache = NoCache
    /\ procs = [ p \in Procs |-> IdleProc ]
    /\ wrote = [ p \in Procs |-> FALSE ]
    /\ nextRid = 1
    /\ nextLogin = 1
    /\ nRequests = 0
    /\ exchanges = [ n \in 1..MaxLogin |-> 0 ]
    /\ loginUri = [ n \in 1..MaxLogin |-> NULL ]
    /\ cachedAt = 0
    /\ atClear = [ p \in Procs |-> "idle" ]
    /\ loggedOut = FALSE
    /\ value = NoValue

\* a function returns v; the value is kept as << v >>
Returns(v) ==
    /\ value = NoValue
    /\ value' = << v >>
    /\ UNCHANGED << now, config, cache, procs, wrote, nextRid, nextLogin, nRequests,
                    exchanges, loginUri, cachedAt, args, atClear, loggedOut >>

\* jwt.ts:89-95 isTokenExpired(expiresAt, marginSeconds)
InitExpired ==
    /\ now \in 0..MaxEpoch
    /\ args \in [ expiresAt : 0..MaxEpoch, marginSeconds : 0..MaxMargin ]
    /\ Standstill

ApplyIsTokenExpired ==
    /\ Returns(isTokenExpired(args.expiresAt, args.marginSeconds))
    /\ UNCHANGED cookies

SpecExpired == InitExpired /\ [][ApplyIsTokenExpired]_vars

\* the payloads a token may carry, and the lifetimes a response may name
AllProfiles == { "std", "idroles", "bad" }
ExpiresIns == { 0, 1, 300 }
RefreshExpiresIns == { 0, 3, 1800 }
TokenResponses ==
    { TokenResponse(rid, profile, expiresIn, refreshExpiresIn) :
        rid \in 1..MaxRid, profile \in AllProfiles,
        expiresIn \in ExpiresIns, refreshExpiresIn \in RefreshExpiresIns }

\* jwt.ts:187-200 normalizeTokenResponse(response)
InitNormalize ==
    /\ now \in 0..MaxEpoch
    /\ args \in TokenResponses
    /\ Standstill

ApplyNormalizeTokenResponse ==
    /\ Returns(normalizeTokenResponse(args))
    /\ UNCHANGED cookies

SpecNormalize == InitNormalize /\ [][ApplyNormalizeTokenResponse]_vars

\* cookies: setTokenCookies(tokens) followed by getTokenCookies(), both with
\* the default prefix, on an empty store
InitRoundTrip ==
    /\ now \in 0..MaxEpoch
    /\ args \in { normalizeTokenResponse(response) : response \in TokenResponses }
    /\ Standstill

ApplySetThenGetTokenCookies ==
    /\ cookies' = setTokenCookies(cookies, now, args, DEFAULT_COOKIE_PREFIX)
    /\ Returns(getTokenCookies(cookies', DEFAULT_COOKIE_PREFIX))

SpecRoundTrip == InitRoundTrip /\ [][ApplySetThenGetTokenCookies]_vars

(***************************************************************************)
(* Login, callback and session resolution in a row, one request at a time, *)
(* against a provider whose token sets live 300 and 1800 seconds and whose *)
(* id tokens carry the roles or leave them to the access token.  The       *)
(* deployment sets refreshMarginSeconds or leaves it at its default.  The  *)
(* clock moves between the requests.                                       *)
(***************************************************************************)
ScenarioLifetimes == << 300, 1800 >>
ScenarioProfiles == { "std", "idroles" }
ScenarioConfigs == { ConfigOf(NoNum), ConfigOf(ConfigRefreshMargin) }

Pause ==
    /\ \A p \in Procs : procs[p].pc = "idle"
    /\ Tick

InitEndToEnd ==
    /\ now = 1
    /\ config \in ScenarioConfigs
    /\ cookies = [ k \in Keys |-> NoCookie ]
    /\ cache = NoCache
    /\ procs = [ p \in Procs |-> IdleProc ]
    /\ wrote = [ p \in Procs |-> FALSE ]
    /\ nextRid = 1
    /\ nextLogin = 1
    /\ nRequests = 0
    /\ exchanges = [ n \in 1..MaxLogin |-> 0 ]
    /\ loginUri = [ n \in 1..MaxLogin |-> NULL ]
    /\ cachedAt = 0
    /\ args = NoArgs
    /\ value = NoValue
    /\ atClear = [ p \in Procs |-> "idle" ]
    /\ loggedOut = FALSE

NextEndToEnd ==
    \/ \E returnTo \in FlowReturnTos : LoginStart("r1", returnTo)
    \/ LoginPersist("r1")
    \/ \E doc \in Documents : DiscoveryResponse("r1", doc)
    \/ DiscoveryFail("r1")
    \/ \E r \in FlowCallbackRequests : CallbackStart("r1", r[1], r[2], r[3])
    \/ \E profile \in ScenarioProfiles :
           TokenOk("r1", profile, ScenarioLifetimes[1], ScenarioLifetimes[2])
    \/ TokenFail("r1")
    \/ CallbackPersist("r1")
    \/ CallbackClear("r1")
    \/ GetSessionStart("r1")
    \/ Finish("r1")
    \/ Pause

SpecEndToEnd == InitEndToEnd /\ [][NextEndToEnd]_vars

(***************************************************************************)
(* Session resolution over a stored token set against a provider whose     *)
(* 2xx token responses may carry tokens that are no JWTs.                  *)
(***************************************************************************)
IssuedProfiles == { "std", "bad" }

InitIssued ==
    /\ now = 1
    /\ config = ConfigOf(ConfigRefreshMargin)
    /\ cookies \in
          { setTokenCookies([ k \in Keys |-> NoCookie ], now,
                            normalizeTokenResponse(
                                TokenResponse(0, profile, life[1], life[2])),
                            DEFAULT_COOKIE_PREFIX) :
              profile \in IssuedProfiles, life \in Lifetimes }
    /\ cache = NoCache
    /\ procs = [ p \in Procs |-> IdleProc ]
    /\ wrote = [ p \in Procs |-> FALSE ]
    /\ nextRid = 1
    /\ nextLogin = 1
    /\ nRequests = 0
    /\ exchanges = [ n \in 1..MaxLogin |-> 0 ]
    /\ loginUri = [ n \in 1..MaxLogin |-> NULL ]
    /\ cachedAt = 0
    /\ args = NoArgs
    /\ value = NoValue
    /\ atClear = [ p \in Procs |-> "idle" ]
    /\ loggedOut = FALSE

NextIssued ==
    \/ GetSessionStart("r1")
    \/ GetSessionPersist("r1")
    \/ \E doc \in Documents : DiscoveryResponse("r1", doc)
    \/ DiscoveryFail("r1")
    \/ \E profile \in IssuedProfiles, life \in Lifetimes :
           TokenOk("r1", profile, life[1], life[2])
    \/ TokenFail("r1")
    \/ Finish("r1")
    \/ Tick

SpecIssued == InitIssued /\ [][NextIssued]_vars

(***************************************************************************)
(* discovery.ts:7, 22-78: the cache as the Map it is, and two calls of     *)
(* discoverEndpoints in a row with any two (url, realm) pairs.  url and    *)
(* realm are strings of characters; every provider serves a complete       *)
(* document of its own.                                                    *)
(***************************************************************************)
Chars == { "a", ":", "/" }
Strings == UNION { [ 1..n -> Chars ] : n \in 1..MaxStringLen }
Providers == [ url : Strings, realm : Strings ]

\* the document served at getRealmUrl(url, realm)/.well-known/openid-configuration
DocumentFor(url, realm) ==
    [ f \in DOMAIN ProviderDocument |-> getRealmUrl(url, realm) \o << "/", f >> ]

EmptyMap == [ k \in { } |-> NoCache ]

\* discoverEndpoints(url, realm) over the Map `map`: what it returns, where
\* from, and the Map afterwards
discoverEndpointsIn(map, url, realm) ==
    LET key == cacheKey(url, realm) IN
    IF key \in DOMAIN map /\ DateNowMs < map[key].expiresAt
    THEN [ served |-> "cache", endpoints |-> map[key].endpoints, cache |-> map ]
    ELSE LET endpoints == DocumentFor(url, realm) IN
         [ served |-> "fetch", endpoints |-> endpoints,
           cache |-> [ k \in DOMAIN map \cup { key } |->
                         IF k = key THEN CacheEntry(endpoints) ELSE map[k] ] ]

InitCacheKey ==
    /\ now = 1
    /\ args \in [ first : Providers, second : Providers ]
    /\ Standstill

DiscoverFirst ==
    /\ value = NoValue
    /\ value' = << discoverEndpointsIn(EmptyMap, args.first.url, args.first.realm) >>
    /\ UNCHANGED << now, config, cookies, cache, procs, wrote, nextRid, nextLogin,
                    nRequests, exchanges, loginUri, cachedAt, args, atClear, loggedOut >>

DiscoverSecond ==
    /\ Len(value) = 1
    /\ value' = Append(value, discoverEndpointsIn(value[1].cache,
                                                  args.second.url, args.second.realm))
    /\ UNCHANGED << now, config, cookies, cache, procs, wrote, nextRid, nextLogin,
                    nRequests, exchanges, loginUri, cachedAt, args, atClear, loggedOut >>

SpecCacheKey == InitCacheKey /\ [][DiscoverFirst \/ DiscoverSecond]_vars

(***************************************************************************)
(* Session resolution over a stored token set of which the browser may     *)
(* lose single keys, the two expiry keys among them.                       *)
(***************************************************************************)
NextDropped ==
    \/ GetSessionStart("r1")
    \/ GetSessionPersist("r1")
    \/ \E doc \in Documents : DiscoveryResponse("r1", doc)
    \/ DiscoveryFail("r1")
    \/ \E profile \in Profiles, life \in Lifetimes :
           TokenOk("r1", profile, life[1], life[2])
    \/ TokenFail("r1")
    \/ Finish("r1")
    \/ Tick
    \/ \E k \in TokenKeys : CookieDropped(k)

SpecDropped == InitRestart /\ [][NextDropped]_vars

(***************************************************************************)
(* Login starts and callbacks one after the other with one cookie prefix:  *)
(* the n-th login start is asked to return to a page of its own.           *)
(***************************************************************************)
ReturnToOf(n) == << "/page", n >>

NextLogins ==
    \/ LoginStart("r1", ReturnToOf(nextLogin))
    \/ LoginPersist("r1")
    \/ \E doc \in Documents : DiscoveryResponse("r1", doc)
    \/ DiscoveryFail("r1")
    \/ \E r \in FlowCallbackRequests : CallbackStart("r1", r[1], r[2], r[3])
    \/ \E profile \in Profiles, life \in Lifetimes : TokenOk("r1", profile, life[1], life[2])
    \/ TokenFail("r1")
    \/ CallbackPersist("r1")
    \/ CallbackClear("r1")
    \/ Finish("r1")
    \/ Pause

SpecLogins == Init /\ [][NextLogins]_vars

\* jwt.ts:56-84 extractUser(claims, clientId): claim maps with and without
\* realm_access and resource_access, with and without roles inside them,
\* with roles listed twice and roles of a second client
RealmAccesses ==
    { [ roles |-> l ] :
        l \in { << >>, << "user" >>, << "user", "admin" >>, << "admin", "user", "admin" >> } }
    \cup { [ verify_caller |-> TRUE ] }
ClientEntries ==
    { [ roles |-> l ] :
        l \in { << >>, << "view" >>, << "admin", "view" >>, << "user", "user" >> } }
    \cup { [ verify_caller |-> TRUE ] }
OtherClientEntry == [ roles |-> << "root", "user" >> ]
ResourceAccesses ==
    { [ app |-> c ] : c \in ClientEntries }
    \cup { [ other |-> OtherClientEntry ] }
    \cup { [ app |-> c, other |-> OtherClientEntry ] : c \in ClientEntries }
ClaimMaps ==
    { [ sub |-> << "user", 1 >> ] }
    \cup { [ sub |-> << "user", 1 >>, realm_access |-> ra ] : ra \in RealmAccesses }
    \cup { [ sub |-> << "user", 1 >>, resource_access |-> rs ] : rs \in ResourceAccesses }
    \cup { [ sub |-> << "user", 1 >>, realm_access |-> ra, resource_access |-> rs ] :
             ra \in RealmAccesses, rs \in ResourceAccesses }
ClientIds == { "app", "other", "none" }

InitRoles ==
    /\ now = 1
    /\ args \in [ claims : ClaimMaps, clientId : ClientIds ]
    /\ Standstill

ApplyExtractUser ==
    /\ Returns(extractUser(args.claims, args.clientId))
    /\ UNCHANGED cookies

SpecRoles == InitRoles /\ [][ApplyExtractUser]_vars

\* session.ts:75-102 buildSession on the stored tokens: an access token and
\* an id token of any two token responses and any profile, or no id token
StoredAccessTokens ==
    { Token("at", rid, profile) : rid \in 1..MaxRid, profile \in AllProfiles }
StoredIdTokens ==
    { NULL } \cup { Token("id", rid, profile) : rid \in 1..MaxRid, profile \in AllProfiles }

InitBuildSession ==
    /\ now = 1
    /\ args \in [ accessToken : StoredAccessTokens, idToken : StoredIdTokens,
                   clientId : { "app", "other" } ]
    /\ Standstill

ApplyBuildSession ==
    /\ Returns(buildSession(args.accessToken, args.idToken, 2, 3, args.clientId))
    /\ UNCHANGED cookies

SpecBuildSession == InitBuildSession /\ [][ApplyBuildSession]_vars

(***************************************************************************)
(* Properties.  They speak of a request p through what the handler read    *)
(* (procs[p].tokenCookies at procs[p].readAt, procs[p].request) and through *)
(* the store itself, never through the handler's own decisions.            *)
(***************************************************************************)
IsDone(p, kind) == procs[p].kind = kind /\ procs[p].pc = "done"

Stored(p) == procs[p].tokenCookies

\* the margin the deployment asked for
ConfiguredMargin ==
    IF config.refreshMarginSeconds = NoNum THEN DefaultRefreshMargin
    ELSE config.refreshMarginSeconds

\* the states of the stored credentials getSession tells apart
NoCredentials(p) ==
    ~Truthy(Stored(p).accessToken) /\ ~Truthy(Stored(p).refreshToken)

AccessValid(p) ==
    /\ Truthy(Stored(p).accessToken)
    /\ Stored(p).expiresAt # NoNum
    /\ procs[p].readAt < Stored(p).expiresAt - ConfiguredMargin

RefreshExpired(p) ==
    /\ Stored(p).refreshExpiresAt # NoNum
    /\ Stored(p).refreshExpiresAt <= procs[p].readAt

AccessExpiredRefreshExpired(p) ==
    ~AccessValid(p) /\ Truthy(Stored(p).refreshToken) /\ RefreshExpired(p)

\* getSession on p has called the refresh and got a token set back
Refreshed(p) ==
    procs[p].kind = "getSession" /\ procs[p].nRefresh = 1
    /\ procs[p].newTokens # NoTokens

\* the store holds the token set tokens under all five token keys
StoreHolds(tokens) ==
    /\ CookieGet(cookies, Names.accessToken) = tokens.access_token
    /\ CookieGet(cookies, Names.refreshToken) = tokens.refresh_token
    /\ CookieGet(cookies, Names.idToken) = tokens.id_token
    /\ ParseInt(CookieGet(cookies, Names.expiresAt)) = tokens.access_token_expires_at
    /\ ParseInt(CookieGet(cookies, Names.refreshExpiresAt))
           = tokens.refresh_token_expires_at

\* the session carries the token set tokens
SessionOf(session, tokens) ==
    /\ session.type = "session"
    /\ session.accessToken = tokens.access_token
    /\ session.idToken = tokens.id_token
    /\ session.accessTokenExpiresAt = tokens.access_token_expires_at
    /\ session.refreshTokenExpiresAt = tokens.refresh_token_expires_at

\* the callback's state check must turn the pair (parameter, persisted) down
StateRejected(state, persisted) ==
    ~Truthy(state) \/ ~Truthy(persisted) \/ state # persisted

\* C1: a callback request without an error parameter whose state parameter
\* is absent, or for which no state is persisted, or whose state differs
\* from the persisted one, is answered with a 4xx rejection in that very
\* step: exchangeCodeForTokens is not called, no request goes out to the
\* provider, and the store (the token keys included) stays as it was.
C1_StateMismatchRejected ==
    [][ \A p \in Procs :
          ( /\ procs[p].pc = "idle"
            /\ procs'[p].kind = "callback"
            /\ ~Truthy(procs'[p].request.error)
            /\ StateRejected(procs'[p].request.state,
                             CookieGet(cookies, Names.state)) )
          => ( /\ procs'[p].pc = "done"
               /\ procs'[p].result.type = "json"
               /\ procs'[p].result.status =
                      IF Truthy(procs'[p].request.code) THEN 403 ELSE 400
               /\ procs'[p].nExchange = 0
               /\ procs'[p].nDiscovery = 0
               /\ procs'[p].nToken = 0
               /\ exchanges' = exchanges
               /\ cookies' = cookies ) ]_vars

\* a forged state met a persisted one and was turned down with 403
C1_Witness ==
    \E p \in Procs :
        /\ IsDone(p, "callback")
        /\ procs[p].request.state = << "st", 0 >>
        /\ Truthy(CookieGet(cookies, Names.state))
        /\ procs[p].result = Json(403, "Invalid state parameter")

\* C2: when getSession reads a stored access-token expiry that lies in the
\* past and a stored refresh-token expiry that lies in the future, it calls
\* refreshAccessToken exactly once and sends at most one token request; it
\* returns a session exactly when the token set came back, and that
\* session's accessTokenExpiresAt is strictly greater than the expiry it
\* had read.
C2_RefreshOnceAndLater ==
    \A p \in Procs :
        ( /\ procs[p].kind = "getSession"
          /\ Stored(p).expiresAt # NoNum
          /\ Stored(p).expiresAt < procs[p].readAt
          /\ Stored(p).refreshExpiresAt # NoNum
          /\ Stored(p).refreshExpiresAt > procs[p].readAt )
        => ( /\ procs[p].nRefresh = 1
             /\ procs[p].nToken <= 1
             /\ procs[p].newTokens # NoTokens => procs[p].nToken = 1
             /\ procs[p].pc = "done" =>
                   /\ procs[p].result.type = "session" <=> procs[p].newTokens # NoTokens
                   /\ procs[p].result.type = "session" =>
                         procs[p].result.accessTokenExpiresAt > Stored(p).expiresAt )

C2_Witness ==
    \E p \in Procs :
        /\ IsDone(p, "getSession")
        /\ Stored(p).expiresAt # NoNum
        /\ Stored(p).expiresAt < procs[p].readAt
        /\ Stored(p).refreshExpiresAt > procs[p].readAt
        /\ procs[p].nToken = 1
        /\ procs[p].result.type = "session"
        /\ procs[p].result.accessTokenExpiresAt > Stored(p).expiresAt

\* C3: when getSession returns after a successful refresh, the store holds
\* the new token set under all five token keys, and the returned session
\* carries the new access token, id token and both new expiries.
C3_RefreshPersistsNewTokenSet ==
    \A p \in Procs :
        ( Refreshed(p) /\ procs[p].pc = "done" )
        => ( /\ StoreHolds(procs[p].newTokens)
             /\ SessionOf(procs[p].result, procs[p].newTokens) )

\* every key the call had read has given way to the new token set
C3_Witness ==
    \E p \in Procs :
        /\ Refreshed(p) /\ procs[p].pc = "done"
        /\ StoreHolds(procs[p].newTokens)
        /\ Truthy(Stored(p).accessToken) /\ Truthy(Stored(p).idToken)
        /\ Stored(p).accessToken # procs[p].newTokens.access_token
        /\ Stored(p).refreshToken # procs[p].newTokens.refresh_token
        /\ Stored(p).idToken # procs[p].newTokens.id_token
        /\ Stored(p).refreshExpiresAt # procs[p].newTokens.refresh_token_expires_at

\* C4: when the refresh that getSession called fails (discovery or the
\* token request), getSession returns null, throws nothing, and has not
\* changed the store.
C4_RefreshFailureLeavesStore ==
    \A p \in Procs :
        ( /\ IsDone(p, "getSession")
          /\ procs[p].nRefresh = 1
          /\ procs[p].newTokens = NoTokens )
        => ( procs[p].result = NullResult /\ ~wrote[p] )

\* the token request went out and failed; the refresh token read is still stored
C4_Witness ==
    \E p \in Procs :
        /\ IsDone(p, "getSession")
        /\ procs[p].nRefresh = 1 /\ procs[p].nToken = 1
        /\ procs[p].newTokens = NoTokens
        /\ procs[p].result = NullResult
        /\ Truthy(Stored(p).refreshToken)
        /\ CookieGet(cookies, Names.refreshToken) = Stored(p).refreshToken

\* C5: a getSession call that reads no credentials, or a valid access token,
\* or a refresh expiry in the past next to a missing or expired access
\* token, returns in its first step and sends no request: no discovery
\* fetch, no token request, no call of refreshAccessToken.
C5_NoNetworkWithoutRefresh ==
    \A p \in Procs :
        ( /\ procs[p].kind = "getSession"
          /\ \/ NoCredentials(p)
             \/ AccessValid(p)
             \/ ~AccessValid(p) /\ RefreshExpired(p) )
        => ( /\ procs[p].pc = "done"
             /\ procs[p].nDiscovery = 0
             /\ procs[p].nToken = 0
             /\ procs[p].nRefresh = 0 )

\* the refresh token had run out next to an expired access token
C5_Witness ==
    \E p \in Procs :
        /\ IsDone(p, "getSession")
        /\ ~AccessValid(p) /\ RefreshExpired(p)
        /\ Truthy(Stored(p).accessToken)
        /\ procs[p].nDiscovery = 0 /\ procs[p].nToken = 0

\* C6: a getSession call that reads an expired access token and an expired
\* refresh token returns null and neither deletes nor writes a key.
C6_RefreshExpiredNullNoWrite ==
    \A p \in Procs :
        ( procs[p].kind = "getSession" /\ AccessExpiredRefreshExpired(p) )
        => ( /\ procs[p].pc = "done"
             /\ procs[p].result = NullResult
             /\ ~wrote[p] )

\* the stale credentials are still in the store when the call has returned
C6_Witness ==
    \E p \in Procs :
        /\ IsDone(p, "getSession")
        /\ AccessExpiredRefreshExpired(p)
        /\ procs[p].result = NullResult
        /\ StoreHolds([ access_token |-> Stored(p).accessToken,
                        refresh_token |-> Stored(p).refreshToken,
                        id_token |-> Stored(p).idToken,
                        access_token_expires_at |-> Stored(p).expiresAt,
                        refresh_token_expires_at |-> Stored(p).refreshExpiresAt ])

\* C7: a getSession call that reads an access token whose expiry is more
\* than the refresh margin away returns a session with the stored access
\* token and the stored expiries, whatever the refresh token's state, and
\* writes nothing to the store.
C7_AccessValidFromStore ==
    \A p \in Procs :
        ( procs[p].kind = "getSession" /\ AccessValid(p) )
        => ( /\ procs[p].pc = "done"
             /\ procs[p].result.type = "session"
             /\ procs[p].result.accessToken = Stored(p).accessToken
             /\ procs[p].result.accessTokenExpiresAt = Stored(p).expiresAt
             /\ procs[p].result.refreshTokenExpiresAt = Stored(p).refreshExpiresAt
             /\ ~wrote[p] )

\* the session came from the store although the refresh token had run out
C7_Witness ==
    \E p \in Procs :
        /\ IsDone(p, "getSession")
        /\ AccessValid(p)
        /\ RefreshExpired(p)
        /\ procs[p].result.type = "session"
        /\ procs[p].result.accessToken = Stored(p).accessToken

\* since p read the store the provider has answered more token requests
\* than p's own: another request's exchange ran alongside p's refresh
Raced(p) == nextRid > Stored(p).refreshToken[2] + 2

\* the token keys present in the store stem from one token response
OneResponseStored ==
    \A k1, k2 \in { Names.accessToken, Names.refreshToken, Names.idToken } :
        cookies[k1].present /\ cookies[k2].present
        => cookies[k1].value[2] = cookies[k2].value[2]

C9_PKCEDeletedAfterExchange ==
    \A p \in Procs :
        ( IsDone(p, "callback") /\ procs[p].nExchange = 1 )
        => \A k \in PKCEKeys : ~cookies[k].present

\* C10: over the whole run, at most one callback goes on to the token
\* exchange with the code verifier of one persisted PKCE record.
C10_PKCESingleUse ==
    \A n \in 1..MaxLogin : exchanges[n] <= 1

\* what callback.ts read of the PKCE record
Persisted(p) == procs[p].pkceCookies

\* the request p has sent nothing to the provider and called no exchange
NothingSent(p) ==
    procs[p].nExchange = 0 /\ procs[p].nDiscovery = 0 /\ procs[p].nToken = 0

\* C11: a callback request that carries an error parameter is answered in
\* its first step with a redirect to the error page carrying that error,
\* whatever its code and state; it calls no token exchange, sends nothing
\* to the provider and leaves the token keys and the PKCE keys as they were.
C11_ErrorSurfaced ==
    \A p \in Procs :
        ( procs[p].kind = "callback" /\ Truthy(procs[p].request.error) )
        => ( /\ procs[p].pc = "done"
             /\ procs[p].result.type = "redirect"
             /\ procs[p].result.target = BaseUrl \o << "/auth/error" >>
             /\ procs[p].result.params.error = procs[p].request.error
             /\ NothingSent(p)
             /\ ~wrote[p] )

\* the error came with a code and with the state of the persisted record
C11_Witness ==
    \E p \in Procs :
        /\ IsDone(p, "callback")
        /\ Truthy(procs[p].request.error)
        /\ Truthy(procs[p].request.code)
        /\ Truthy(procs[p].request.state)
        /\ procs[p].request.state = CookieGet(cookies, Names.state)
        /\ Truthy(CookieGet(cookies, Names.codeVerifier))
        /\ procs[p].result.type = "redirect"

\* C12: when a callback without error, with a code, with the persisted
\* state and with a persisted verifier has got its token set from the
\* exchange and returns, the store holds that token set and the response
\* is a redirect to the persisted returnTo, or to / when none is persisted.
C12_CallbackSuccess ==
    \A p \in Procs :
        ( /\ IsDone(p, "callback")
          /\ ~Truthy(procs[p].request.error)
          /\ Truthy(procs[p].request.code)
          /\ Truthy(procs[p].request.state)
          /\ procs[p].request.state = Persisted(p).state
          /\ Truthy(Persisted(p).codeVerifier)
          /\ procs[p].newTokens # NoTokens )
        => ( /\ StoreHolds(procs[p].newTokens)
             /\ procs[p].result.type = "redirect"
             /\ procs[p].result.target =
                    BaseUrl \o ( IF Persisted(p).returnTo = NULL THEN << "/" >>
                                 ELSE Persisted(p).returnTo ) )

\* the user comes back to the page the login start was asked to return to
C12_Witness ==
    \E p \in Procs :
        /\ IsDone(p, "callback")
        /\ procs[p].newTokens # NoTokens
        /\ StoreHolds(procs[p].newTokens)
        /\ Persisted(p).returnTo = << "/dash" >>
        /\ procs[p].result.type = "redirect"
        /\ procs[p].result.target = BaseUrl \o << "/dash" >>

\* the callback that comes in on p is turned down with response, in that
\* very step, without exchange, request or store write
TurnedDown(p, response) ==
    /\ procs'[p].pc = "done"
    /\ procs'[p].result = response
    /\ procs'[p].nExchange = 0
    /\ procs'[p].nDiscovery = 0
    /\ procs'[p].nToken = 0
    /\ exchanges' = exchanges
    /\ cookies' = cookies

\* C13: a callback without error is turned down without exchange and
\* without store write: with 400 when the code is missing (whatever the
\* state), else with 403 when the state check fails (whatever the
\* verifier), else with 400 when no code verifier is persisted.
C13_RejectionOrder ==
    [][ \A p \in Procs :
          ( /\ procs[p].pc = "idle"
            /\ procs'[p].kind = "callback"
            /\ ~Truthy(procs'[p].request.error) )
          => LET code == procs'[p].request.code
                 state == procs'[p].request.state
                 stored == CookieGet(cookies, Names.state)
                 verifier == CookieGet(cookies, Names.codeVerifier)
             IN  /\ ~Truthy(code)
                    => TurnedDown(p, Json(400, "Missing authorization code"))
                 /\ Truthy(code) /\ StateRejected(state, stored)
                    => TurnedDown(p, Json(403, "Invalid state parameter"))
                 /\ Truthy(code) /\ ~StateRejected(state, stored) /\ ~Truthy(verifier)
                    => TurnedDown(p, Json(400, "Missing PKCE code verifier")) ]_vars

\* the state matched, but the verifier was gone
C13_Witness ==
    \E p \in Procs :
        /\ IsDone(p, "callback")
        /\ Truthy(procs[p].request.code)
        /\ procs[p].request.state = CookieGet(cookies, Names.state)
        /\ ~cookies[Names.codeVerifier].present
        /\ procs[p].result = Json(400, "Missing PKCE code verifier")

\* C14: when the exchange that a callback called fails, at discovery or at
\* the token endpoint, the callback answers with a failure response, not a
\* redirect, and has written no key of the store.
C14_ExchangeFailureNoTokens ==
    \A p \in Procs :
        ( /\ IsDone(p, "callback")
          /\ procs[p].nExchange = 1
          /\ procs[p].newTokens = NoTokens )
        => ( /\ procs[p].result.type = "json"
             /\ procs[p].result.status = 500
             /\ ~wrote[p] )

\* the token endpoint turned the code down
C14_Witness ==
    \E p \in Procs :
        /\ IsDone(p, "callback")
        /\ procs[p].nExchange = 1 /\ procs[p].nToken = 1
        /\ procs[p].newTokens = NoTokens
        /\ procs[p].result.type = "json"
        /\ \A k \in TokenKeys : ~cookies[k].present

\* C15: when a login start returns its redirect, the URL's state is the
\* state now stored, its code_challenge is the S256 challenge of the code
\* verifier now stored, and it carries response_type=code and
\* code_challenge_method=S256.
C15_LoginUrlMatchesRecord ==
    \A p \in Procs :
        ( IsDone(p, "login") /\ procs[p].result.type = "redirect" )
        => ( /\ Truthy(CookieGet(cookies, Names.state))
             /\ procs[p].result.params.state = CookieGet(cookies, Names.state)
             /\ Truthy(CookieGet(cookies, Names.codeVerifier))
             /\ procs[p].result.params.code_challenge
                    = generateCodeChallenge(CookieGet(cookies, Names.codeVerifier))
             /\ procs[p].result.params.code_challenge # CookieGet(cookies, Names.codeVerifier)
             /\ procs[p].result.params.response_type = "code"
             /\ procs[p].result.params.code_challenge_method = "S256" )

\* the second login start has replaced the first one's record
C15_Witness ==
    \E p \in Procs :
        /\ IsDone(p, "login")
        /\ procs[p].result.type = "redirect"
        /\ procs[p].result.params.state = << "st", 2 >>
        /\ CookieGet(cookies, Names.state) = << "st", 2 >>
        /\ CookieGet(cookies, Names.codeVerifier) = << "cv", 2 >>

PostLogoutUri(p) ==
    IF procs[p].request.returnTo # NULL THEN procs[p].request.returnTo
    ELSE IF config.postLogoutRedirectUri # NULL THEN config.postLogoutRedirectUri
    ELSE BaseUrl

\* discoverEndpoints has handed the request p a document
Discovered(p) == procs[p].endpoints # NoEndpoints

\* C17: when a logout request has returned, none of the five token keys
\* (access token, refresh token, id token, both expiries) is in the store,
\* whether discovery succeeded or failed.
C17_LogoutClearsCredentials ==
    \A p \in Procs :
        IsDone(p, "logout") => \A k \in TokenKeys : ~cookies[k].present

\* C18: every logout request ends with a redirect: to the provider's
\* end_session_endpoint with post_logout_redirect_uri and client_id when
\* discovery handed over a document, and to the post-logout URI itself,
\* not the provider, when discovery failed.
C18_LogoutAlwaysRedirects ==
    \A p \in Procs :
        IsDone(p, "logout")
        => ( /\ procs[p].result.type = "redirect"
             /\ Discovered(p) =>
                   /\ procs[p].result.target = ProviderDocument.end_session_endpoint
                   /\ procs[p].result.params.post_logout_redirect_uri = PostLogoutUri(p)
                   /\ procs[p].result.params.client_id = config.clientId
             /\ ~Discovered(p) =>
                   /\ procs[p].result.target = PostLogoutUri(p)
                   /\ procs[p].nDiscovery = 1 )

\* C19: when an id token was stored as a logout request read the store
\* and discovery handed over a document, the end-session redirect carries
\* that id token as id_token_hint, and the store no longer holds it when
\* the response is produced.
C19_IdTokenHintReadBeforeClear ==
    \A p \in Procs :
        ( /\ IsDone(p, "logout")
          /\ Truthy(Stored(p).idToken)
          /\ Discovered(p) )
        => ( /\ procs[p].result.type = "redirect"
             /\ procs[p].result.params.id_token_hint = Stored(p).idToken
             /\ CookieGet(cookies, Names.idToken) # Stored(p).idToken )

\* the document came from the network, after the store had been cleared
C19_Witness ==
    \E p \in Procs :
        /\ IsDone(p, "logout")
        /\ procs[p].nDiscovery = 1
        /\ Discovered(p)
        /\ Truthy(Stored(p).idToken)
        /\ procs[p].result.params.id_token_hint = Stored(p).idToken
        /\ ~cookies[Names.idToken].present

\* the request p calls discoverEndpoints in this step
CallsDiscovery(p) ==
    \/ procs[p].kind = "idle" /\ procs'[p].kind = "login"
    \/ procs[p].kind = "logout" /\ procs[p].pc = "clear" /\ procs'[p].pc # "clear"

\* C20: once discoverEndpoints has written a cache entry, every call less
\* than five minutes after the write of the entry gets the cached document and
\* sends no request, and a call five minutes or more after the write sends
\* the discovery request again.
C20_CacheForFiveMinutes ==
    [][ \A p \in Procs :
          ( cachedAt > 0 /\ CallsDiscovery(p) )
          => IF now - cachedAt < 5 * 60
             THEN /\ procs'[p].nDiscovery = 0
                  /\ procs'[p].pc # "discovery"
                  /\ procs'[p].endpoints = cache.endpoints
                  /\ cache.endpoints \in Documents
             ELSE /\ procs'[p].nDiscovery = 1
                  /\ procs'[p].pc = "discovery" ]_vars

\* a login sends the discovery request exactly five minutes after the write
\* of the entry; the PKCE record in the store is the one a login persisted a
\* second earlier, which got the cached document
C20_Witness ==
    \E p \in Procs :
        /\ cachedAt > 0 /\ now - cachedAt = 5 * 60
        /\ procs[p].kind = "login" /\ procs[p].pc = "discovery"
        /\ procs[p].nDiscovery = 1
        /\ cache.present
        /\ cookies[Names.state].present
        /\ cookies[Names.state].dies = (now - 1) + PKCE_MAX_AGE

\* a discovery fetch of the request p is answered in this step
DiscoveryAnswered(p) == procs[p].pc = "discovery" /\ procs'[p].pc # "discovery"

\* the document has the five fields every cached document must have
HasRequiredFields(doc) ==
    /\ Truthy(doc.authorization_endpoint)
    /\ Truthy(doc.token_endpoint)
    /\ Truthy(doc.end_session_endpoint)
    /\ Truthy(doc.jwks_uri)
    /\ Truthy(doc.issuer)

\* C21: a discoverEndpoints call fails exactly when its fetch gets no 2xx
\* answer or the document lacks one of authorization_endpoint,
\* token_endpoint, end_session_endpoint, jwks_uri, issuer; a failed call
\* leaves the cache as it was, and a cached document always has the five
\* fields.
C21_FailedDiscoveryCachesNothing ==
    /\ [](cache.present => HasRequiredFields(cache.endpoints))
    /\ [][ \A p \in Procs :
             DiscoveryAnswered(p)
             => LET answer == procs'[p].answer
                    failed == procs'[p].endpoints = NoEndpoints
                IN  /\ failed <=> ( answer.failed
                                    \/ ~HasRequiredFields(answer.document) )
                    /\ failed => cache' = cache
                    /\ ~failed => procs'[p].endpoints = answer.document ]_vars

\* a document without jwks_uri has been turned down while an entry written
\* earlier is still in the cache
C21_Witness ==
    \E p \in Procs :
        /\ procs[p].pc = "done"
        /\ procs[p].answer.ok
        /\ procs[p].answer.document.jwks_uri = NULL
        /\ procs[p].endpoints = NoEndpoints
        /\ cache.present

\* the request p gets the cached document in this step
ServedFromCache(p) == CallsDiscovery(p) /\ procs'[p].nDiscovery = 0

\* the fetch of the request p is answered in this step and its document
\* is written to the cache
WritesCache(p) == DiscoveryAnswered(p) /\ procs'[p].endpoints # NoEndpoints

\* C22: with discoverEndpoints calls and clearDiscoveryCache interleaved
\* in any way, a write puts the writer's document and a fresh expiry in
\* place of whatever entry there is, and a call is served from the cache
\* only less than five minutes after the entry was written, also when the
\* writer's fetch was in flight while clearDiscoveryCache ran.
C22_LastWriterWinsWithinTTL ==
    [][ \A p \in Procs :
          /\ WritesCache(p)
             => /\ cache' = [ present |-> TRUE,
                              endpoints |-> procs'[p].answer.document,
                              expiresAt |-> (now + 5 * 60) * 1000 ]
                /\ cachedAt' = now
          /\ ServedFromCache(p)
             => /\ cache.present
                /\ cachedAt > 0 /\ now - cachedAt < 5 * 60
                /\ procs'[p].endpoints = cache.endpoints ]_vars

\* the fetch of q was in flight when clearDiscoveryCache ran and has
\* written its document since; p, which came in after the clearing, got
\* that document from the cache
C22_Witness ==
    \E p, q \in Procs :
        /\ atClear[q] = "discovery"
        /\ procs[q].nDiscovery = 1 /\ procs[q].endpoints # NoEndpoints
        /\ atClear[p] = "idle"
        /\ procs[p].kind = "login" /\ procs[p].pc = "persist"
        /\ procs[p].nDiscovery = 0
        /\ cache.present
        /\ procs[p].endpoints = cache.endpoints
        /\ procs[q].endpoints = cache.endpoints

\* the result with which the caller of the core answers a failure of it
FailureResult(p) ==
    CASE procs[p].kind = "getSession" -> procs[p].result = NullResult
      [] procs[p].kind = "callback" ->
            procs[p].result.type = "json" /\ procs[p].result.status = 500
      [] procs[p].kind = "login" -> procs[p].result = Thrown
      [] procs[p].kind = "logout" -> procs[p].result.type \in { "redirect", "throw" }
      [] OTHER -> FALSE

\* C23: a request calls discoverEndpoints at most once and that call sends
\* at most one discovery fetch; a call of exchangeCodeForTokens or
\* refreshAccessToken sends at most one token request; when the fetch or
\* the token request fails nothing is sent again and the caller gets the
\* failure.
C23_NothingRetried ==
    \A p \in Procs :
        /\ procs[p].nDiscovery <= 1
        /\ procs[p].nRefresh + procs[p].nExchange <= 1
        /\ procs[p].nToken <= procs[p].nRefresh + procs[p].nExchange
        /\ ( procs[p].pc = "done" /\ procs[p].nDiscovery = 1
             /\ procs[p].endpoints = NoEndpoints )
           => ( procs[p].nToken = 0 /\ FailureResult(p) )
        /\ ( procs[p].pc = "done" /\ procs[p].nToken = 1
             /\ procs[p].newTokens = NoTokens )
           => FailureResult(p)

\* a token request has failed although the provider answered an earlier one
C23_Witness ==
    \E p \in Procs :
        /\ procs[p].pc = "done"
        /\ procs[p].kind \in { "getSession", "callback" }
        /\ procs[p].nToken = 1
        /\ procs[p].newTokens = NoTokens
        /\ FailureResult(p)
        /\ nextRid > 1

\* C24: isTokenExpired(expiresAt, margin) is true exactly when the clock,
\* in whole epoch seconds, has reached expiresAt - margin; it is true at the
\* instant expiresAt - margin itself.
C24_ExpiredFromMarginOn ==
    value # NoValue
    => /\ value[1] <=> ( now >= args.expiresAt - args.marginSeconds )
       /\ now = args.expiresAt - args.marginSeconds => value[1]

\* the function has answered true at the boundary, with a margin
C24_Witness ==
    /\ value # NoValue
    /\ args.marginSeconds > 0
    /\ now = args.expiresAt - args.marginSeconds
    /\ value[1]

\* C25: the token set made of a token response has
\* access_token_expires_at = now + expires_in and refresh_token_expires_at =
\* now + refresh_expires_in, now being the clock when the response is
\* normalized, and the access, refresh and id token of the response.
C25_ExpiryIsNowPlusLifetime ==
    value # NoValue
    => /\ value[1].access_token_expires_at = now + args.expires_in
       /\ value[1].refresh_token_expires_at = now + args.refresh_expires_in
       /\ value[1].access_token = args.access_token
       /\ value[1].refresh_token = args.refresh_token
       /\ value[1].id_token = args.id_token

\* a response with the lifetimes 300 and 1800 has been normalized
C25_Witness ==
    /\ value # NoValue
    /\ now > 0
    /\ args.expires_in = 300 /\ args.refresh_expires_in = 1800
    /\ value[1].access_token_expires_at = now + 300
    /\ value[1].refresh_token_expires_at = now + 1800

\* C26: for every token set, getTokenCookies after setTokenCookies(tokens)
\* with the same prefix returns the access, refresh and id token and the two
\* expiry timestamps of that token set.
C26_TokenCookiesRoundTrip ==
    value # NoValue
    => /\ value[1].accessToken = args.access_token
       /\ value[1].refreshToken = args.refresh_token
       /\ value[1].idToken = args.id_token
       /\ value[1].expiresAt = args.access_token_expires_at
       /\ value[1].refreshExpiresAt = args.refresh_token_expires_at

\* the elements of a list
Elements(list) == { list[i] : i \in 1..Len(list) }

\* claims.realm_access.roles, empty when absent
RealmRolesOf(claims) ==
    IF "realm_access" \in DOMAIN claims /\ "roles" \in DOMAIN claims["realm_access"]
    THEN claims["realm_access"]["roles"] ELSE << >>

\* claims.resource_access[clientId].roles, empty when absent
ClientRolesOf(claims, clientId) ==
    IF /\ "resource_access" \in DOMAIN claims
       /\ clientId \in DOMAIN claims["resource_access"]
       /\ "roles" \in DOMAIN claims["resource_access"][clientId]
    THEN claims["resource_access"][clientId]["roles"] ELSE << >>

\* C27: extractUser returns realm_roles = realm_access.roles and
\* client_roles = resource_access[clientId].roles, each empty when absent,
\* and roles holding exactly the roles of the two lists, none twice; a role
\* that only another client of resource_access has is not among them.
C27_RolesAreUnionWithoutDuplicates ==
    value # NoValue
    => LET user == value[1]
           realm == RealmRolesOf(args.claims)
           client == ClientRolesOf(args.claims, args.clientId)
       IN  /\ user.realm_roles = realm
           /\ user.client_roles = client
           /\ Elements(user.roles) = Elements(realm) \cup Elements(client)
           /\ \A i, j \in 1..Len(user.roles) :
                  i # j => user.roles[i] # user.roles[j]
           /\ "resource_access" \in DOMAIN args.claims
              => \A c \in DOMAIN args.claims.resource_access \ { args.clientId } :
                     \A r \in Elements(ClientRolesOf(args.claims, c)) :
                         r \in Elements(user.roles)
                         => r \in Elements(realm) \cup Elements(client)

\* a role of both lists comes out once, and the second client's own role
\* does not come out
C27_Witness ==
    /\ value # NoValue
    /\ args.clientId = "app"
    /\ RealmRolesOf(args.claims) = << "user", "admin" >>
    /\ ClientRolesOf(args.claims, "app") = << "admin", "view" >>
    /\ ClientRolesOf(args.claims, "other") = << "root", "user" >>
    /\ value[1].roles = << "user", "admin", "view" >>

C29_HttpOnlyFlagsAndPKCELifetime ==
    /\ \A k \in { Names.accessToken, Names.refreshToken, Names.idToken,
                  Names.codeVerifier, Names.state } :
           cookies[k].present => cookies[k].httpOnly
    /\ \A k \in { Names.expiresAt, Names.refreshExpiresAt, Names.returnTo } :
           cookies[k].present => ~cookies[k].httpOnly
    /\ \A k \in PKCEKeys :
           cookies[k].present
           => cookies[k].maxAge = 300 /\ cookies[k].dies - cookies[k].maxAge <= now

\* the token keys and the PKCE keys are in the store together, all eight
C29_Witness ==
    /\ \A k \in Keys : cookies[k].present
    /\ Names.state = << "kc", "_state" >>
    /\ Names.returnTo = << "kc", "_return" >>

\* getSession has answered on r1 over a stored token set
ResolvedOverTokens ==
    /\ procs["r1"].kind = "getSession"
    /\ procs["r1"].pc = "done"
    /\ cookies[Names.accessToken].present
    /\ cookies[Names.idToken].present

\* the instant at which the stored token set was written
StoredSince == cookies[Names.accessToken].dies - cookies[Names.accessToken].maxAge

\* the roles of a claim set for the configured client, as a set
RolesIn(claims) ==
    Elements(RealmRolesOf(claims)) \cup Elements(ClientRolesOf(claims, config.clientId))

\* the value of a key for the session: the id token's where the id token
\* has the key, the access token's otherwise
ClaimFor(key) ==
    LET id == PayloadOf(cookies[Names.idToken].value)
        access == PayloadOf(cookies[Names.accessToken].value)
    IN  IF key \in DOMAIN id THEN [ x \in { key } |-> id[key] ]
        ELSE IF key \in DOMAIN access THEN [ x \in { key } |-> access[key] ]
        ELSE [ x \in { "none" } |-> NULL ]

C31_NoSessionNoWrite ==
    \A p \in Procs :
        (procs[p].kind = "getSession" /\ procs[p].pc = "done")
        => /\ procs[p].result.type \in { "null", "throw" } => ~wrote[p]
           /\ wrote[p] => /\ procs[p].result.type = "session"
                          /\ procs[p].result.accessToken = procs[p].newTokens.access_token

\* C32: once a logout request has returned, no getSession call returns a
\* session until a callback has stored a new token set, a getSession whose
\* refresh was in flight when the logout cleared the store included.
C32_NoSessionAfterLogout ==
    \A p \in Procs :
        (procs[p].kind = "getSession" /\ procs[p].pc = "done" /\ loggedOut)
        => procs[p].result.type # "session"

\* the same for a getSession call that came in after the logout had returned
C32_NoSessionReadAfterLogout ==
    [][ \A p \in Procs :
          (loggedOut /\ procs[p].pc = "idle" /\ procs'[p].kind = "getSession")
          => ~(procs'[p].pc = "done" /\ procs'[p].result.type = "session") ]_vars

\* C34: a discoverEndpoints call is answered from the entry that another
\* call wrote only if both name the same (url, realm); the document a call
\* returns is the one of its own (url, realm).
C34_CacheEntryPerProvider ==
    Len(value) = 2
    => /\ value[2].served = "cache" => args.first = args.second
       /\ value[2].endpoints = DocumentFor(args.second.url, args.second.realm)

\* the token keys present in the store are what is left of one token
\* response: the rid-th, of this profile and these lifetimes, normalized at
\* the instant t, and all of them were written at one instant
LeftOfOneResponse(rid, profile, expiresIn, refreshExpiresIn, t) ==
    LET stored(k, v, maxAge) ==
            cookies[k].present => cookies[k].value = v /\ cookies[k].maxAge = maxAge
    IN  /\ stored(Names.accessToken, Token("at", rid, profile), expiresIn)
        /\ stored(Names.refreshToken, Token("rt", rid, profile), refreshExpiresIn)
        /\ stored(Names.idToken, Token("id", rid, profile), expiresIn)
        /\ stored(Names.expiresAt, NumToString(t + expiresIn), refreshExpiresIn)
        /\ stored(Names.refreshExpiresAt, NumToString(t + refreshExpiresIn),
                  refreshExpiresIn)
        /\ \A k, l \in TokenKeys :
               cookies[k].present /\ cookies[l].present
               => cookies[k].dies - cookies[k].maxAge = cookies[l].dies - cookies[l].maxAge
        /\ \A k \in TokenKeys : cookies[k].present => t <= cookies[k].dies - cookies[k].maxAge

\* C33: in every reachable state the token keys that are present (access
\* token, refresh token, id token, both expiries) all come from one and the
\* same token response; callbacks, refreshing getSession calls, expiring keys
\* and logouts never leave values of two responses side by side.
C33_TokenKeysOfOneResponse ==
    \E rid \in 0..MaxRid, profile \in AllProfiles, life \in Lifetimes, t \in 1..MaxTime :
        LeftOfOneResponse(rid, profile, life[1], life[2], t)

\* all five keys hold what the second response brought
C33_Witness ==
    /\ \A k \in TokenKeys : cookies[k].present
    /\ cookies[Names.accessToken].value[2] = 2
    /\ cookies[Names.idToken].value[2] = 2
    /\ cookies[Names.refreshToken].value[2] = 2

\* the strings that an object handed out by the session query surface
\* carries: its token fields and the string fields of its user
StringsIn(object) ==
    { object[k] : k \in DOMAIN object \cap { "accessToken", "idToken", "refreshToken" } }
    \cup ( IF "user" \in DOMAIN object /\ object.user # NULL
           THEN { object.user[k] :
                    k \in { "sub", "name", "given_name", "family_name",
                            "preferred_username", "email", "email_verified" } }
           ELSE { } )

\* the refresh tokens and the id tokens a getSession call has had to do with:
\* those it read, those its refresh brought, those in the store
RefreshTokensOf(p) ==
    { procs[p].tokenCookies.refreshToken, procs[p].newTokens.refresh_token,
      CookieGet(cookies, Names.refreshToken) } \ { NULL }
IdTokensOf(p) ==
    { procs[p].tokenCookies.idToken, procs[p].newTokens.id_token,
      CookieGet(cookies, Names.idToken) } \ { NULL }

\* C35: whatever getSession returns, the session carries no refresh token,
\* and the JSON body that the session handler makes of it carries neither a
\* refresh token nor an id token.
C35_RefreshTokenStaysInside ==
    \A p \in Procs :
        (procs[p].kind = "getSession" /\ procs[p].pc = "done")
        => /\ StringsIn(procs[p].result) \cap RefreshTokensOf(p) = { }
           /\ StringsIn(sessionHandler(procs[p].result))
                  \cap (RefreshTokensOf(p) \cup IdTokensOf(p)) = { }

\* a session that came of a refresh, and its body with the new access token
C35_Witness ==
    /\ procs["r1"].kind = "getSession" /\ procs["r1"].pc = "done"
    /\ procs["r1"].result.type = "session"
    /\ procs["r1"].newTokens.refresh_token # NULL
    /\ procs["r1"].result.idToken = procs["r1"].newTokens.id_token
    /\ sessionHandler(procs["r1"].result).accessToken = procs["r1"].newTokens.access_token
    /\ CookieGet(cookies, Names.refreshToken) = procs["r1"].newTokens.refresh_token

\* C36: a getSession call that reads an access token without its expiry
\* takes the access token for expired: it returns a session only after a
\* refresh that succeeded, built from the refreshed tokens.  A call that goes
\* for a refresh and reads a refresh token without its expiry takes the
\* refresh token for valid and calls the refresh.
C36_MissingExpiryMeansRefresh ==
    \A p \in Procs :
        procs[p].kind = "getSession"
        => LET read == procs[p].tokenCookies
               accessUsable ==
                   /\ Truthy(read.accessToken)
                   /\ read.expiresAt > 0
                   /\ procs[p].readAt < read.expiresAt - refreshMargin
           IN  /\ ( /\ Truthy(read.accessToken)
                    /\ read.expiresAt = NoNum
                    /\ procs[p].pc = "done"
                    /\ procs[p].result.type = "session" )
                  => /\ procs[p].nRefresh = 1
                     /\ procs[p].nToken = 1
                     /\ procs[p].newTokens.access_token # NULL
                     /\ procs[p].result.accessToken = procs[p].newTokens.access_token
               /\ ( /\ Truthy(read.refreshToken)
                    /\ read.refreshExpiresAt = NoNum
                    /\ ~accessUsable )
                  => procs[p].nRefresh = 1

\* an access token and a refresh token were read, neither with its expiry,
\* and the session came of the refresh
C36_Witness ==
    /\ procs["r1"].kind = "getSession" /\ procs["r1"].pc = "done"
    /\ Truthy(procs["r1"].tokenCookies.accessToken)
    /\ Truthy(procs["r1"].tokenCookies.refreshToken)
    /\ procs["r1"].tokenCookies.expiresAt = NoNum
    /\ procs["r1"].tokenCookies.refreshExpiresAt = NoNum
    /\ procs["r1"].result.type = "session"
    /\ procs["r1"].nRefresh = 1

\* the discovery fetch of request p got no 2xx answer or a document that
\* lacks a required field
DiscoveryFailedFor(p) ==
    \/ procs[p].answer.failed
    \/ procs[p].answer.ok /\ ~HasRequiredFields(procs[p].answer.document)

\* C37: a login start whose discovery failed ends in the failure and has
\* written nothing: no code verifier, no state, no returnTo, and the PKCE
\* record an earlier login start stored is as it was.
C37_FailedLoginPersistsNothing ==
    \A p \in Procs :
        (IsDone(p, "login") /\ DiscoveryFailedFor(p))
        => /\ procs[p].result = Thrown
           /\ ~wrote[p]
           /\ \A k \in { Names.codeVerifier, Names.state } :
                  cookies[k].present => cookies[k].value[2] < nextLogin

\* the failed login start finds the PKCE record of login start 1 and leaves it
C37_Witness ==
    \E p \in Procs :
        /\ IsDone(p, "login")
        /\ procs[p].answer.failed
        /\ procs[p].result = Thrown
        /\ CookieGet(cookies, Names.codeVerifier) = generateCodeVerifier(1)
        /\ CookieGet(cookies, Names.state) = generateState(1)

\* two login starts have stored their record one after the other and the
\* record is in the store as a callback with a code and without error comes in
SecondLoginStored ==
    /\ nextLogin = 3
    /\ \A k \in PKCEKeys : cookies[k].present
    /\ procs["r1"].pc = "idle"
    /\ procs'["r1"].kind = "callback"
    /\ Truthy(procs'["r1"].request.code)
    /\ ~Truthy(procs'["r1"].request.error)

\* C38: after two login starts L1 and L2 under one prefix, a callback with
\* L1's state is turned down (403, invalid state) without exchange, and a
\* callback with L2's state calls the exchange with L2's code verifier and,
\* when the exchange has brought tokens, redirects to L2's returnTo.
C38_OnlyTheLastLoginCompletes ==
    /\ [][ SecondLoginStored
           => /\ procs'["r1"].request.state = generateState(1)
                 => TurnedDown("r1", Json(403, "Invalid state parameter"))
              /\ procs'["r1"].request.state = generateState(2)
                 => /\ procs'["r1"].nExchange = 1
                    /\ procs'["r1"].pc # "done"
                    /\ procs'["r1"].body.code_verifier = generateCodeVerifier(2)
                    /\ exchanges' = [ exchanges EXCEPT ![2] = @ + 1 ] ]_vars
    /\ []( ( /\ IsDone("r1", "callback")
             /\ nextLogin = 3
             /\ procs["r1"].request.state = generateState(2)
             /\ procs["r1"].newTokens # NoTokens )
           => /\ procs["r1"].body.code_verifier = generateCodeVerifier(2)
              /\ procs["r1"].result = Redirect(BaseUrl \o ReturnToOf(2), << >>) )

\* the callback of the second login start has gone through
C38_Witness ==
    /\ IsDone("r1", "callback")
    /\ nextLogin = 3
    /\ procs["r1"].request.state = generateState(2)
    /\ procs["r1"].newTokens # NoTokens
    /\ procs["r1"].body.code_verifier = generateCodeVerifier(2)
    /\ procs["r1"].result.target = BaseUrl \o << "/page", 2 >>

====
